---- MODULE Spec2Model ----
(***************************************************************************)
(* Model of the concurrent task orchestrator of src/MultiMinecraft.py:     *)
(*   - the bounded worker pools multidescarga_archivos and                  *)
(*     multiinstalacion_versiones (specification SpecLote),                 *)
(*   - the task queues and their dispatcher, agregar_*_a_cola and           *)
(*     procesar_cola_* (specification SpecCola),                            *)
(*   - the instance metadata cache, cargar_instancias_optimizado and        *)
(*     limpiar_cache, with calls made one at a time (specification          *)
(*     SpecCache) and with calls made by two threads (specification         *)
(*     SpecScan),                                                           *)
(*   - one install unit, instalar_version_optimizada (specification         *)
(*     SpecInst),                                                           *)
(*   - one batch of transfers, multidescarga_archivos with                  *)
(*     descargar_archivo_optimizado (specification SpecDesc).               *)
(* and of the version cache of src/version_manager.py,                      *)
(* VersionManager.get_all_versions (specification SpecVM).                  *)
(* Each specification holds the variables of the other parts at their       *)
(* initial values.                                                          *)
(***************************************************************************)
EXTENDS Integers, Sequences, FiniteSets, TLC

VARIABLES
    \* ---- one batch call of a pool (multidescarga / multiinstalacion) ----
    tipo_lote,        \* "descarga" | "instalacion": which pool function is called
    nombres,          \* lista_*: the logical name of each task of the batch, in order
    enviados,         \* number of tasks already passed to executor.submit
    unidad,           \* per task: "nueva" | "encolada" | "ejecutando" | "terminada" | "recogida"
    interno,          \* per task: what the wrapped call did: "nada" | "ok" | "fail" | "raise"
    resultados,       \* the dict resultados: a set of pairs <<nombre, exito>>
    pc_lote,          \* "submit" | "collect" | "returned" | "raised"
    \* ---- the task queues and their dispatcher ----
    cola_descargas,       \* _cola_descargas (module global)
    cola_instalaciones,   \* _cola_instalaciones (module global)
    en_proceso,           \* _en_proceso (module global, one flag for both queues)
    pc_llamador,          \* per caller thread: "idle" | "test" | "set" | "start"
    cola_llamador,        \* per caller thread: the queue its current enqueue is on
    siguiente_id,         \* next request id to be enqueued
    hilos,                \* the dispatcher threads started so far (a sequence of records)
    lotes,                \* history: the batches handed to a pool, in order
    \* ---- the instance metadata cache ----
    ahora,                        \* time.time()
    cache_instancias,             \* _cache_instancias: its records, in insertion order
    cache_ultima_actualizacion,   \* _cache_ultima_actualizacion
    fs,                           \* the instances root: per directory its state on disk
    raiz_existe,                  \* os.path.exists(instancias_root)
    scan_count,                   \* history: number of filesystem scans performed
    ult_llamada,                  \* history: what the last listing call did
    ult_retorno,                  \* history: what the last listing call returned
    ult_scan,                     \* history: the last scan that stamped the rebuild time
    \* ---- the threads calling cargar_instancias_optimizado concurrently ----
    pc_lista,         \* per thread: "idle" | "listar" | "cargar"
    tiempo_actual,    \* per thread: tiempo_actual of its call
    trabajo,          \* per thread and directory: the worker loading that directory
    antes,            \* history, per thread: the cache when its scan began
    vistos,           \* history, per thread: the cache copies readers took during its scan
    retorno_hilo,     \* history, per thread: what its last call returned
    \* ---- one install unit (instalar_version_optimizada) ----
    tipo_unidad,      \* tipo: "Vanilla" | "Forge" | "Fabric"
    version_pedida,   \* the argument version as the caller passed it
    version,          \* the local name version of the unit
    con_sink,         \* callback_progreso is not None
    pc_inst,          \* position in the unit
    intento,          \* intento of instalar_forge_con_reintentos
    indice_alt,       \* position of version_alt in versiones_fallback
    scaffold_fallo,   \* a directory creation of the Scaffold phase raised
    resuelto,         \* "ninguno" | "si" | "no": find_forge_version / encontrar_version_fabric
    historial,        \* history: the calls of the external installer, in order
    progreso,         \* history: the values given to callback_progreso, in hundredths
    sink_lanzo,       \* history: callback_progreso raised
    retorno_inst,     \* "ninguno" | "True" | "False": what the unit returned
    remedios,         \* history: per failed attempt but the last, the marks of its message and what ran
    \* ---- one batch of transfers (multidescarga_archivos) ----
    n_desc,                   \* descargas_totales = len(lista_descargas)
    sink_desc,                \* callback_progreso is not None
    pc_desc,                  \* per task: position of descargar_individual
    conexiones,               \* history, per task: calls of requests.get
    total_size,               \* per task: total_size
    trozos,                   \* per task: chunks iter_content has yielded
    descargado,               \* per task: descargado, in chunks with content
    llamadas_sink,            \* per task: calls of the sink made by its transfer in progress
    ult_valor,                \* per task: the last value its transfer in progress gave the sink
    sink_desc_lanzo,          \* history, per task: the sink raised in a call made for it
    error_desc,               \* history, per task: its connection, its body or a write failed
    exito_desc,               \* per task: what descargar_archivo_optimizado returned
    leido,                    \* per task: the value read for descargas_completadas += 1
    descargas_completadas,    \* the cell descargas_completadas
    max_agregado,             \* history: the largest count given to the sink as aggregate progress
    resultados_desc,          \* per task: its entry of resultados
    pc_multi,                 \* "corriendo" | "retornado"
    \* ---- the version cache (VersionManager) ----
    reloj_vm,         \* time.time(), in hours
    archivo_vm,       \* versions_cache.json
    marca_vm,         \* history: flips at every call of get_all_versions
    forzada,          \* history: force_update of the last call
    api_vm,           \* history: the API in the last call: "sin_llamar" | "fallo" | "ok"
    retorno_vm        \* history: what the last call returned

varsLote  == <<tipo_lote, nombres, enviados, unidad, interno, resultados, pc_lote>>
varsCola  == <<cola_descargas, cola_instalaciones, en_proceso, pc_llamador,
               cola_llamador, siguiente_id, hilos, lotes>>
varsCache == <<ahora, cache_instancias, cache_ultima_actualizacion, fs, raiz_existe,
               scan_count, ult_llamada, ult_retorno, ult_scan>>
varsScan  == <<pc_lista, tiempo_actual, trabajo, antes, vistos, retorno_hilo>>
varsInst  == <<tipo_unidad, version_pedida, version, con_sink, pc_inst, intento,
               indice_alt, scaffold_fallo, resuelto, historial, progreso, sink_lanzo,
               retorno_inst, remedios>>
varsDesc  == <<n_desc, sink_desc, pc_desc, conexiones, total_size, trozos, descargado,
               llamadas_sink, ult_valor, sink_desc_lanzo, error_desc, exito_desc, leido,
               descargas_completadas, max_agregado, resultados_desc, pc_multi>>
varsVM    == <<reloj_vm, archivo_vm, marca_vm, forzada, api_vm, retorno_vm>>
vars == <<varsLote, varsCola, varsCache, varsScan, varsInst, varsDesc, varsVM>>

(***************************************************************************)
(* Program constants                                                       *)
(***************************************************************************)
MAX_CONCURRENT_DOWNLOADS == 6
MAX_CONCURRENT_INSTALLS == 4
CACHE_DURACION == 5

(***************************************************************************)
(* Bounds of the model                                                     *)
(***************************************************************************)
MaxLote == 7          \* largest batch passed to a pool (> both pool bounds)

Min(a, b) == IF a < b THEN a ELSE b

(***************************************************************************)
(* PART 1.  The bounded worker pool: one call of multidescarga_archivos or *)
(* multiinstalacion_versiones on a batch.                                  *)
(***************************************************************************)
TiposLote == {"descarga", "instalacion"}

\* max_workers of the ThreadPoolExecutor each pool function creates.
MaxWorkers(tipo) ==
    IF tipo = "descarga" THEN MAX_CONCURRENT_DOWNLOADS ELSE MAX_CONCURRENT_INSTALLS

Tareas == DOMAIN nombres

Ejecutando == {i \in Tareas : unidad[i] = "ejecutando"}

\* The batches of the model: n tasks named 1..n, or the same with the second
\* task carrying the first one's name (two requests of one batch sharing a name).
Lista(n, repetido) == [i \in 1..n |-> IF repetido /\ i = 2 THEN 1 ELSE i]

\* The tasks whose wrapped call may fail or raise in the model (the first, the
\* third and the last of the batch); the wrapped call of the others succeeds.
PuedeFallar(i) == i \in {1, 3} \/ i = Len(nombres)

NombresUnicos == \A i, j \in Tareas : nombres[i] = nombres[j] => i = j

\* futures = [executor.submit(unit, tarea) for tarea in lista]: one task is
\* put on the executor's work queue; workers may already be running earlier ones.
Submit ==
    /\ pc_lote = "submit"
    /\ enviados < Len(nombres)
    /\ enviados' = enviados + 1
    /\ unidad' = [unidad EXCEPT ![enviados + 1] = "encolada"]
    /\ pc_lote' = IF enviados + 1 = Len(nombres) THEN "collect" ELSE "submit"
    /\ UNCHANGED <<tipo_lote, nombres, interno, resultados>>
    /\ UNCHANGED <<varsCola, varsCache, varsScan, varsInst, varsDesc, varsVM>>

\* The executor was built with max_workers = k: it owns at most k worker
\* threads, each running one task at a time.
HayWorkerLibre_sin_limite == TRUE
HayWorkerLibre == Cardinality(Ejecutando) < MaxWorkers(tipo_lote)

\* A worker takes the oldest task of the work queue (FIFO) and enters the unit.
IniciarUnidad(i) ==
    /\ unidad[i] = "encolada"
    /\ \A j \in Tareas : j < i => unidad[j] # "encolada"
    /\ HayWorkerLibre
    /\ unidad' = [unidad EXCEPT ![i] = "ejecutando"]
    /\ UNCHANGED <<tipo_lote, nombres, enviados, interno, resultados, pc_lote>>
    /\ UNCHANGED <<varsCola, varsCache, varsScan, varsInst, varsDesc, varsVM>>

\* What descargar_individual / instalar_individual hand to their future, given
\* what the wrapped call did: the try/except turns a raise into (nombre, False).
\* escapa: an exception leaves the unit and is stored in the future.
unidad_individual_sin_try(r) == [escapa |-> r = "raise", exito |-> r = "ok"]
unidad_individual(r) == [escapa |-> FALSE, exito |-> r = "ok"]

\* The wrapped call (descargar_archivo_optimizado followed by the progress
\* callback, or instalar_version_optimizada) ends: it returned True, returned
\* False, or raised.
TerminarUnidad(i) ==
    /\ unidad[i] = "ejecutando"
    /\ \E r \in (IF PuedeFallar(i) THEN {"ok", "fail", "raise"} ELSE {"ok"}) :
           interno' = [interno EXCEPT ![i] = r]
    /\ unidad' = [unidad EXCEPT ![i] = "terminada"]
    /\ UNCHANGED <<tipo_lote, nombres, enviados, resultados, pc_lote>>
    /\ UNCHANGED <<varsCola, varsCache, varsScan, varsInst, varsDesc, varsVM>>

\* The key under which the outcome of task i is stored.
ClaveResultado(i) == nombres[i]

\* d[k] = v on a dict held as a set of pairs.
Asignar(d, k, v) == {p \in d : p[1] # k} \cup {<<k, v>>}
Claves(d) == {p[1] : p \in d}

\* for future in as_completed(futures): nombre, exito = future.result();
\* resultados[nombre] = exito.  future.result() re-raises what left the unit.
Recoger(i) ==
    /\ pc_lote = "collect"
    /\ unidad[i] = "terminada"
    /\ unidad' = [unidad EXCEPT ![i] = "recogida"]
    /\ IF unidad_individual(interno[i]).escapa
       THEN /\ pc_lote' = "raised"
            /\ UNCHANGED resultados
       ELSE /\ resultados' = Asignar(resultados, ClaveResultado(i),
                                     unidad_individual(interno[i]).exito)
            /\ UNCHANGED pc_lote
    /\ UNCHANGED <<tipo_lote, nombres, enviados, interno>>
    /\ UNCHANGED <<varsCola, varsCache, varsScan, varsInst, varsDesc, varsVM>>

\* as_completed is exhausted and the with block has joined the workers.
TodasRecogidas_primera == \E i \in Tareas : unidad[i] = "recogida"
TodasRecogidas == \A i \in Tareas : unidad[i] = "recogida"

\* return resultados
Retornar ==
    /\ pc_lote = "collect"
    /\ TodasRecogidas
    /\ pc_lote' = "returned"
    /\ UNCHANGED <<tipo_lote, nombres, enviados, unidad, interno, resultados>>
    /\ UNCHANGED <<varsCola, varsCache, varsScan, varsInst, varsDesc, varsVM>>

NextLote ==
    \/ Submit
    \/ \E i \in Tareas : IniciarUnidad(i)
    \/ \E i \in Tareas : TerminarUnidad(i)
    \/ \E i \in Tareas : Recoger(i)
    \/ Retornar

(***************************************************************************)
(* Claims on the bounded worker pool (SpecLote)                            *)
(***************************************************************************)
NombresEnviados == {nombres[i] : i \in Tareas}
Fallidas == {i \in Tareas : interno[i] \in {"fail", "raise"}}
Exitosas == {i \in Tareas : interno[i] = "ok"}

\* C1: in every reachable state of a batch call, the number of units in their
\* execution phase is at most the bound of the pool the batch was given to
\* (MAX_CONCURRENT_DOWNLOADS for multidescarga_archivos, MAX_CONCURRENT_INSTALLS
\* for multiinstalacion_versiones), whatever the batch size.
C1_LimiteConcurrencia == Cardinality(Ejecutando) <= MaxWorkers(tipo_lote)

\* C1 witness: a download batch larger than the pool with the pool saturated and
\* a task still waiting for a worker.
C1_Witness ==
    /\ tipo_lote = "descarga"
    /\ Len(nombres) > MAX_CONCURRENT_DOWNLOADS
    /\ Cardinality(Ejecutando) = MAX_CONCURRENT_DOWNLOADS
    /\ \E i \in Tareas : unidad[i] = "encolada"

\* C2: when the batch call has returned, every submitted unit has finished and
\* been collected, the keys of resultados are exactly the submitted names, and
\* for names unique within the batch each name has the single entry holding the
\* boolean outcome of its unit.
C2_MapaCompleto ==
    pc_lote = "returned" =>
        /\ \A i \in Tareas : unidad[i] = "recogida" /\ interno[i] # "nada"
        /\ Claves(resultados) = NombresEnviados
        /\ NombresUnicos =>
               /\ Cardinality(resultados) = Len(nombres)
               /\ \A i \in Tareas : <<nombres[i], interno[i] = "ok">> \in resultados

\* C2 witness: a returned batch of unique names with both outcomes present.
C2_Witness ==
    /\ pc_lote = "returned"
    /\ NombresUnicos
    /\ Len(nombres) >= 3
    /\ Fallidas # {}
    /\ Exitosas # {}

\* C3: the batch call never raises, and a unit that failed or raised is
\* recorded as False under its own name without touching its siblings: once the
\* batch has returned (names unique), every failed unit maps to False, every
\* other unit ran and maps to True.
C3_FalloAislado ==
    /\ pc_lote # "raised"
    /\ (pc_lote = "returned" /\ NombresUnicos) =>
           /\ Fallidas \cup Exitosas = Tareas
           /\ {p[1] : p \in {x \in resultados : ~x[2]}} = {nombres[i] : i \in Fallidas}
           /\ {p[1] : p \in {x \in resultados : x[2]}} = {nombres[i] : i \in Exitosas}

\* C3 witness: five installs, the third one raising: five keys, four True and
\* one False.
C3_Witness ==
    /\ tipo_lote = "instalacion"
    /\ Len(nombres) = 5
    /\ NombresUnicos
    /\ pc_lote = "returned"
    /\ interno[3] = "raise"
    /\ Cardinality(Claves(resultados)) = 5
    /\ Cardinality({x \in resultados : x[2]}) = 4
    /\ <<nombres[3], FALSE>> \in resultados

(***************************************************************************)
(* PART 2.  The task queues and their dispatcher.                          *)
(***************************************************************************)
NLlamadores == 2      \* threads calling agregar_*_a_cola
MaxPeticiones == 3    \* requests enqueued in one run

Llamadores == 1..NLlamadores
Colas == {"descargas", "instalaciones"}

\* The module global bound to the queue q.
ColaGlobal(q) == IF q = "descargas" THEN cola_descargas ELSE cola_instalaciones

\* Pool bound of the batches drained from queue q.
TamLote(q) ==
    IF q = "descargas" THEN MAX_CONCURRENT_DOWNLOADS ELSE MAX_CONCURRENT_INSTALLS

\* A local name of a Python function that has not been assigned yet, and one
\* that holds the value v.
SinValor == [ligado |-> FALSE, valor |-> <<>>]
Ligado(v) == [ligado |-> TRUE, valor |-> v]

\* Python scoping of the nested function procesar: a name assigned in a function
\* body is local to that function unless that same body declares it global or
\* nonlocal.  procesar assigns _cola_descargas / _cola_instalaciones (the rebind
\* after the slice) and _en_proceso (in its finally) and declares neither: the
\* `global` statement of the enclosing procesar_cola_* does not reach it.
NombresLocalesProcesar == {"cola", "en_proceso"}

\* The value the name of the queue has inside dispatcher thread d.
LeerCola(d) ==
    IF "cola" \in NombresLocalesProcesar
    THEN hilos[d].local_cola
    ELSE Ligado(ColaGlobal(hilos[d].cola))

Tomar(s, k) == SubSeq(s, 1, Min(k, Len(s)))       \* s[:k]
Resto(s, k) == SubSeq(s, Min(k, Len(s)) + 1, Len(s))   \* s[k:]

\* agregar_descarga_a_cola / agregar_instalacion_a_cola: the append; the call of
\* procesar_cola_* follows.
Agregar(c, q) ==
    /\ pc_llamador[c] = "idle"
    /\ siguiente_id <= MaxPeticiones
    /\ IF q = "descargas"
       THEN /\ cola_descargas' = Append(cola_descargas, siguiente_id)
            /\ UNCHANGED cola_instalaciones
       ELSE /\ cola_instalaciones' = Append(cola_instalaciones, siguiente_id)
            /\ UNCHANGED cola_descargas
    /\ siguiente_id' = siguiente_id + 1
    /\ pc_llamador' = [pc_llamador EXCEPT ![c] = "test"]
    /\ cola_llamador' = [cola_llamador EXCEPT ![c] = q]
    /\ UNCHANGED <<en_proceso, hilos, lotes>>
    /\ UNCHANGED <<varsLote, varsCache, varsScan, varsInst, varsDesc, varsVM>>

\* procesar_cola_*: if _en_proceso or not _cola: return
ProcesarColaTest(c) ==
    /\ pc_llamador[c] = "test"
    /\ pc_llamador' = [pc_llamador EXCEPT ![c] =
           IF en_proceso \/ ColaGlobal(cola_llamador[c]) = <<>> THEN "idle" ELSE "set"]
    /\ UNCHANGED <<cola_descargas, cola_instalaciones, en_proceso, cola_llamador,
                   siguiente_id, hilos, lotes>>
    /\ UNCHANGED <<varsLote, varsCache, varsScan, varsInst, varsDesc, varsVM>>

\* procesar_cola_*: _en_proceso = True (a separate statement, no lock held)
ProcesarColaSet(c) ==
    /\ pc_llamador[c] = "set"
    /\ en_proceso' = TRUE
    /\ pc_llamador' = [pc_llamador EXCEPT ![c] = "start"]
    /\ UNCHANGED <<cola_descargas, cola_instalaciones, cola_llamador, siguiente_id,
                   hilos, lotes>>
    /\ UNCHANGED <<varsLote, varsCache, varsScan, varsInst, varsDesc, varsVM>>

\* The frame of procesar when its thread starts: its local names are unassigned.
NuevoHilo(q) ==
    [cola |-> q, pc |-> "while", local_cola |-> SinValor, local_en_proceso |-> SinValor]

\* procesar_cola_*: threading.Thread(target=procesar, daemon=True).start()
ProcesarColaStart(c) ==
    /\ pc_llamador[c] = "start"
    /\ hilos' = Append(hilos, NuevoHilo(cola_llamador[c]))
    /\ pc_llamador' = [pc_llamador EXCEPT ![c] = "idle"]
    /\ UNCHANGED <<cola_descargas, cola_instalaciones, en_proceso, cola_llamador,
                   siguiente_id, lotes>>
    /\ UNCHANGED <<varsLote, varsCache, varsScan, varsInst, varsDesc, varsVM>>

Hilos == DOMAIN hilos
HilosVivos == {d \in Hilos : hilos[d].pc # "fin"}

\* procesar: `while _cola:` and one iteration of its body.  Reading a local name
\* that has no value raises UnboundLocalError, which the except clause of
\* procesar catches.  Otherwise an empty queue ends the loop, and a non-empty one
\* gives one iteration: tareas = cola[:k]; cola = cola[k:]; the pool call on
\* tareas; the sleep.
ProcesarWhile(d) ==
    /\ hilos[d].pc = "while"
    /\ IF ~LeerCola(d).ligado
       THEN /\ hilos' = [hilos EXCEPT ![d].pc = "except"]
            /\ UNCHANGED <<cola_descargas, cola_instalaciones, lotes>>
       ELSE IF LeerCola(d).valor = <<>>
       THEN /\ hilos' = [hilos EXCEPT ![d].pc = "finally"]
            /\ UNCHANGED <<cola_descargas, cola_instalaciones, lotes>>
       ELSE LET q == hilos[d].cola
                v == LeerCola(d).valor
            IN  /\ lotes' = Append(lotes, [cola |-> q, tareas |-> Tomar(v, TamLote(q))])
                /\ IF "cola" \in NombresLocalesProcesar
                   THEN /\ hilos' = [hilos EXCEPT ![d].local_cola = Ligado(Resto(v, TamLote(q)))]
                        /\ UNCHANGED <<cola_descargas, cola_instalaciones>>
                   ELSE /\ UNCHANGED hilos
                        /\ IF q = "descargas"
                           THEN /\ cola_descargas' = Resto(v, TamLote(q))
                                /\ UNCHANGED cola_instalaciones
                           ELSE /\ cola_instalaciones' = Resto(v, TamLote(q))
                                /\ UNCHANGED cola_descargas
    /\ UNCHANGED <<en_proceso, pc_llamador, cola_llamador, siguiente_id>>
    /\ UNCHANGED <<varsLote, varsCache, varsScan, varsInst, varsDesc, varsVM>>

\* procesar: except Exception as e: print(...)
ProcesarExcept(d) ==
    /\ hilos[d].pc = "except"
    /\ hilos' = [hilos EXCEPT ![d].pc = "finally"]
    /\ UNCHANGED <<cola_descargas, cola_instalaciones, en_proceso, pc_llamador,
                   cola_llamador, siguiente_id, lotes>>
    /\ UNCHANGED <<varsLote, varsCache, varsScan, varsInst, varsDesc, varsVM>>

\* procesar: finally: _en_proceso = False, and the thread ends.  The assignment
\* binds the name in the scope NombresLocalesProcesar gives it.
ProcesarFinally(d) ==
    /\ hilos[d].pc = "finally"
    /\ IF "en_proceso" \in NombresLocalesProcesar
       THEN /\ hilos' = [hilos EXCEPT ![d].pc = "fin", ![d].local_en_proceso = Ligado(FALSE)]
            /\ UNCHANGED en_proceso
       ELSE /\ hilos' = [hilos EXCEPT ![d].pc = "fin"]
            /\ en_proceso' = FALSE
    /\ UNCHANGED <<cola_descargas, cola_instalaciones, pc_llamador, cola_llamador,
                   siguiente_id, lotes>>
    /\ UNCHANGED <<varsLote, varsCache, varsScan, varsInst, varsDesc, varsVM>>

NextCola ==
    \/ \E c \in Llamadores, q \in Colas : Agregar(c, q)
    \/ \E c \in Llamadores : ProcesarColaTest(c)
    \/ \E c \in Llamadores : ProcesarColaSet(c)
    \/ \E c \in Llamadores : ProcesarColaStart(c)
    \/ \E d \in Hilos : ProcesarWhile(d)
    \/ \E d \in Hilos : ProcesarExcept(d)
    \/ \E d \in Hilos : ProcesarFinally(d)

(***************************************************************************)
(* Claims on the task queues and their dispatcher (SpecCola)               *)
(***************************************************************************)
\* The requests enqueued so far, and the places where a request was handed to
\* a pool.
Peticiones == 1..(siguiente_id - 1)
Ejecuciones(r) ==
    {<<i, j>> \in (DOMAIN lotes) \X (1..MaxPeticiones) :
        j \in DOMAIN lotes[i].tareas /\ lotes[i].tareas[j] = r}
EnCola(r) ==
    \E q \in Colas : \E j \in DOMAIN ColaGlobal(q) : ColaGlobal(q)[j] = r

\* No enqueue call is under way and no dispatcher thread is alive: nothing but
\* a further enqueue can happen.
Reposo ==
    /\ \A c \in Llamadores : pc_llamador[c] = "idle"
    /\ HilosVivos = {}

\* C4: every enqueued request is removed from its queue and executed by exactly
\* one unit, exactly once, and none stays in the queue forever.  Stated on the
\* states where every started thread has run to its end: there, no request is
\* left in a queue and each has been handed to a pool exactly once.
C4_TodaPeticionSeEjecuta ==
    Reposo => \A r \in Peticiones : ~EnCola(r) /\ Cardinality(Ejecuciones(r)) = 1

\* C5: a step that ends a drain loop (the thread of procesar leaves its finally
\* clause) leaves the global flag _en_proceso false.
C5_FinLimpiaBandera ==
    [][\A d \in Hilos :
          (hilos[d].pc = "finally" /\ hilos'[d].pc = "fin") => ~en_proceso']_vars

\* C6: at most one drain is active at any time: never two callers past the test
\* of _en_proceso, and never two dispatcher threads alive.
C6_UnSoloDrenado ==
    /\ Cardinality({c \in Llamadores : pc_llamador[c] \in {"set", "start"}}) <= 1
    /\ Cardinality(HilosVivos) <= 1

\* C7 (an enqueue concurrent with the slice and rebind of a drain iteration
\* loses no request) has no formula: ProcesarWhile never reaches the slice, so
\* the case does not occur in any behaviour of SpecCola.

\* Batches of one queue hold requests in enqueue order: no request of a later
\* batch was enqueued before a request of an earlier batch.
OrdenLotes ==
    \A i, j \in DOMAIN lotes :
        (i < j /\ lotes[i].cola = lotes[j].cola) =>
            \A a \in DOMAIN lotes[i].tareas, b \in DOMAIN lotes[j].tareas :
                lotes[i].tareas[a] < lotes[j].tareas[b]

\* C8: a drain iteration that finds its queue non-empty takes the first
\* min(k, len) requests of it as one batch for the pool and leaves the rest in
\* the queue, and batches respect the enqueue order.
C8_LotePorIteracion ==
    [][\A d \in Hilos :
          (/\ hilos[d].pc = "while"
           /\ hilos'[d] # hilos[d]
           /\ ColaGlobal(hilos[d].cola) # <<>>)
          => LET q == hilos[d].cola
                 k == TamLote(q)
             IN  /\ lotes' = Append(lotes, [cola |-> q, tareas |-> Tomar(ColaGlobal(q), k)])
                 /\ (IF q = "descargas" THEN cola_descargas' ELSE cola_instalaciones')
                        = Resto(ColaGlobal(q), k)
                 /\ OrdenLotes']_vars

\* A drain of queue q is running or being started.
Drenando(q) ==
    \/ \E d \in HilosVivos : hilos[d].cola = q
    \/ \E c \in Llamadores : pc_llamador[c] \in {"set", "start"} /\ cola_llamador[c] = q

\* C9: the two queues are dispatched independently.  Stated for the case the
\* claim singles out: an enqueue on q whose test runs while q has no drain and
\* the dispatcher thread of the other queue is alive goes on to start a drain
\* of q.
C9_ColasIndependientes ==
    [][\A c \in Llamadores :
          (/\ pc_llamador[c] = "test"
           /\ pc_llamador'[c] # "test"
           /\ ColaGlobal(cola_llamador[c]) # <<>>
           /\ ~Drenando(cola_llamador[c])
           /\ \E d \in HilosVivos : hilos[d].cola # cola_llamador[c])
          => pc_llamador'[c] = "set"]_vars

(***************************************************************************)
(* PART 3.  The instance metadata cache, with calls made one at a time     *)
(* (each call of cargar_instancias_optimizado runs to its end before the   *)
(* next step).                                                             *)
(***************************************************************************)
MaxTiempo == 10       \* the clock stops here
MaxMtime == 1         \* times one config.json is rewritten
MaxScans == 2         \* scans counted in one run

Carpetas == {"a", "b"}

\* time.time() when the program starts: far more than CACHE_DURACION after the
\* epoch, so that the initial stamp 0 is always expired.
TiempoInicial == CACHE_DURACION

\* State on disk of one entry of the instances root.
\*   "ausente"    no such directory
\*   "sin_config" a directory without config.json
\*   "valida"     config.json holds a record with a 'nombre' and an integer
\*                'fecha_creacion', as written when the instance is created
\*   "default"    config.json holds the record of
\*                crear_configuracion_default_instancia
\*   "sin_orden"  config.json holds a record with a 'nombre' whose
\*                'fecha_creacion' is null: nothing obtener_orden_creacion
\*                returns for it can be ordered against another key
\*   "corrupta"   config.json is no JSON, no record, or has no 'nombre'
EstadosCarpeta == {"ausente", "sin_config", "valida", "default", "sin_orden", "corrupta"}

\* The states in which config.json holds a record that passes the validation
\* of cargar_instancia_individual.
EstadosConRegistro == {"valida", "default", "sin_orden"}

\* History of the last listing call: whether it was answered from the cache or
\* went to the filesystem, whether it stamped the rebuild time, whether the TTL
\* had elapsed and whether the cache was empty when it was made, and whether
\* the call before it was answered from the cache.
SinLlamada ==
    [tipo |-> "ninguna", sello |-> FALSE, expirado |-> FALSE, vacio |-> FALSE,
     tras_cache |-> FALSE]

\* What a call hands to its caller: a list of records (forma "lista"), the copy
\* of the dict _cache_instancias (forma "dict": its values in insertion order),
\* or an exception that leaves the call (forma "excepcion").
SinRetorno == [forma |-> "ninguno", registros |-> <<>>]
Retorno(forma, registros) == [forma |-> forma, registros |-> registros]

\* History of the last scan that reached the stamp: the list it returned, and
\* whether the filesystem is still as that scan left it.
SinScan == [hecho |-> FALSE, retorno |-> <<>>, intacto |-> FALSE]

\* Something other than a scan has changed the instances root.
DiscoCambiado == [ult_scan EXCEPT !.intacto = FALSE]

\* The clock advances.
Tick ==
    /\ ahora < MaxTiempo
    /\ ahora' = ahora + 1
    /\ UNCHANGED <<cache_instancias, cache_ultima_actualizacion, fs, raiz_existe,
                   scan_count, ult_llamada, ult_retorno, ult_scan>>
    /\ UNCHANGED <<varsLote, varsCola, varsScan, varsInst, varsDesc, varsVM>>

\* The instances root is created.
CrearRaiz ==
    /\ ~raiz_existe
    /\ raiz_existe' = TRUE
    /\ UNCHANGED <<ahora, cache_instancias, cache_ultima_actualizacion, fs,
                   scan_count, ult_llamada, ult_retorno>>
    /\ ult_scan' = DiscoCambiado
    /\ UNCHANGED <<varsLote, varsCola, varsScan, varsInst, varsDesc, varsVM>>

\* An instance directory is created (without config.json) or removed.  mtime of
\* a directory without config.json is the modification time its config.json
\* will get when written: later than that of any config.json it had before.
CambiarCarpeta(c) ==
    /\ raiz_existe
    /\ \/ /\ fs[c].estado = "ausente"
          /\ fs[c].mtime < MaxMtime
          /\ fs' = [fs EXCEPT ![c] = [estado |-> "sin_config", mtime |-> fs[c].mtime + 1]]
       \/ /\ fs[c].estado # "ausente"
          /\ fs' = [fs EXCEPT ![c].estado = "ausente"]
    /\ UNCHANGED <<ahora, cache_instancias, cache_ultima_actualizacion, raiz_existe,
                   scan_count, ult_llamada, ult_retorno>>
    /\ ult_scan' = DiscoCambiado
    /\ UNCHANGED <<varsLote, varsCola, varsScan, varsInst, varsDesc, varsVM>>

\* config.json of an instance is written again by something other than the
\* scan (the instance editor, the user): its modification time changes.
EscribirConfig(c) ==
    /\ fs[c].estado \in EstadosConRegistro \cup {"corrupta"}
    /\ fs[c].mtime < MaxMtime
    /\ \E e \in {"valida", "sin_orden", "corrupta"} :
           fs' = [fs EXCEPT ![c] = [estado |-> e, mtime |-> fs[c].mtime + 1]]
    /\ UNCHANGED <<ahora, cache_instancias, cache_ultima_actualizacion, raiz_existe,
                   scan_count, ult_llamada, ult_retorno>>
    /\ ult_scan' = DiscoCambiado
    /\ UNCHANGED <<varsLote, varsCola, varsScan, varsInst, varsDesc, varsVM>>

\* The instance creator writes the config.json of the directory it made
\* (open(ruta, 'w') after the installs of the new instances).
CrearConfig(c) ==
    /\ fs[c].estado = "sin_config"
    /\ fs' = [fs EXCEPT ![c].estado = "valida"]
    /\ UNCHANGED <<ahora, cache_instancias, cache_ultima_actualizacion, raiz_existe,
                   scan_count, ult_llamada, ult_retorno>>
    /\ ult_scan' = DiscoCambiado
    /\ UNCHANGED <<varsLote, varsCola, varsScan, varsInst, varsDesc, varsVM>>

\* limpiar_cache
LimpiarCache ==
    /\ cache_instancias' = <<>>
    /\ cache_ultima_actualizacion' = 0
    /\ UNCHANGED <<ahora, fs, raiz_existe, scan_count, ult_llamada, ult_retorno, ult_scan>>
    /\ UNCHANGED <<varsLote, varsCola, varsScan, varsInst, varsDesc, varsVM>>

\* if tiempo_actual - _cache_ultima_actualizacion < CACHE_DURACION and _cache_instancias
CacheValido_menor_igual ==
    ahora - cache_ultima_actualizacion <= CACHE_DURACION /\ cache_instancias # <<>>
CacheValido ==
    ahora - cache_ultima_actualizacion < CACHE_DURACION /\ cache_instancias # <<>>

\* carpetas = [c for c in os.listdir(instancias_root) if os.path.isdir(...)]
CarpetasEnDisco == {c \in Carpetas : fs[c].estado # "ausente"}

\* cache_key = f"{carpeta}_{stat_info.st_mtime}"
CacheKey_sin_mtime(c) == <<c, 0>>
CacheKey(c) == <<c, fs[c].mtime>>

\* datos = json.load(f) of the config.json of c, with __carpeta added: the
\* record is told apart by its directory, by the version of the file it was
\* read from and by the kind of its content.
Registro(c) == [carpeta |-> c, mtime |-> fs[c].mtime, estado |-> fs[c].estado]

\* The record read back from the config.json that
\* crear_configuracion_default_instancia filled.
RegistroDefault(c) == [carpeta |-> c, mtime |-> fs[c].mtime, estado |-> "default"]

\* The key under which a record is stored in _cache_instancias.
ClaveDe(r) == <<r.carpeta, r.mtime>>

Elementos(s) == {s[i] : i \in DOMAIN s}

\* The keys of the dict d, and d[k].
ClavesCache(d) == {ClaveDe(r) : r \in Elementos(d)}
ValorCache(d, k) == CHOOSE r \in Elementos(d) : ClaveDe(r) = k

\* cargar_instancia_individual(c): what it leaves on disk.  A directory without
\* config.json gets the default one written.
DiscoTrasCargar(c) ==
    IF fs[c].estado = "sin_config"
    THEN [estado |-> "default", mtime |-> fs[c].mtime]
    ELSE fs[c]

\* cargar_instancia_individual(c): the entries it adds to _cache_instancias.
\* Only a config.json that was read and validated is stored; the default record
\* of a directory without config.json is returned without being stored.
EntradasTrasCargar(c) ==
    IF fs[c].estado \in EstadosConRegistro /\ CacheKey(c) \notin ClavesCache(cache_instancias)
    THEN {Registro(c)}
    ELSE {}

\* cargar_instancia_individual(c): what it returns, as the set of the records
\* returned (empty for None).
ResultadoCargar(c) ==
    IF fs[c].estado = "sin_config" THEN {RegistroDefault(c)}
    ELSE IF CacheKey(c) \in ClavesCache(cache_instancias)
         THEN {ValorCache(cache_instancias, CacheKey(c))}
    ELSE IF fs[c].estado \in EstadosConRegistro THEN {Registro(c)}
    ELSE {}

\* 'fecha_creacion' of the config.json written for directory c when its
\* instance was created ('a' is the younger instance).
FechaCreacion(c) == IF c = "a" THEN 2 ELSE 1

\* obtener_orden_creacion(inst): an integer 'fecha_creacion' is the key; the
\* date string of the default record falls back to 'ultimo_uso', which is 0; a
\* 'fecha_creacion' that is no string is returned as it is.
obtener_orden_creacion(r) ==
    [ordenable |-> r.estado # "sin_orden",
     valor |-> IF r.estado = "valida" THEN FechaCreacion(r.carpeta) ELSE 0]

\* The orders in which the elements of the set R can stand in a list.
Permutaciones(R) ==
    {s \in [1..Cardinality(R) -> R] : \A r \in R : \E i \in DOMAIN s : s[i] = r}

\* instancias.sort(key=obtener_orden_creacion) raises TypeError when two keys
\* are compared that have no order: with two records or more every key is
\* compared at least once.
SortFalla(R) ==
    /\ Cardinality(R) >= 2
    /\ \E r \in R : ~obtener_orden_creacion(r).ordenable

\* The lists instancias.sort can leave: the records arrive in the order of
\* iteration of the set resultados.done, the sort is stable.
Ordenadas(R) ==
    {s \in Permutaciones(R) :
        \A i, j \in DOMAIN s :
            i < j => obtener_orden_creacion(s[i]).valor <= obtener_orden_creacion(s[j]).valor}

\* cargar_instancias_optimizado answered from the cache.
ListarDesdeCache ==
    /\ CacheValido
    /\ ult_llamada' = [tipo |-> "cache", sello |-> FALSE, expirado |-> FALSE,
                       vacio |-> FALSE, tras_cache |-> ult_llamada.tipo = "cache"]
    /\ ult_retorno' = Retorno("dict", cache_instancias)
    /\ UNCHANGED <<ahora, cache_instancias, cache_ultima_actualizacion, fs,
                   raiz_existe, scan_count, ult_scan>>
    /\ UNCHANGED <<varsLote, varsCola, varsScan, varsInst, varsDesc, varsVM>>

\* cargar_instancias_optimizado going to the filesystem: the early returns for a
\* missing root and for no directories, else the parallel load of every
\* directory, the sort and the stamp.
ListarConScan ==
    /\ ~CacheValido
    /\ scan_count < MaxScans
    /\ scan_count' = scan_count + 1
    /\ IF ~raiz_existe \/ CarpetasEnDisco = {}
       THEN /\ ult_retorno' = Retorno("lista", <<>>)
            /\ ult_llamada' =
                   [tipo |-> "scan", sello |-> FALSE,
                    expirado |-> ahora - cache_ultima_actualizacion >= CACHE_DURACION,
                    vacio |-> cache_instancias = <<>>,
                    tras_cache |-> ult_llamada.tipo = "cache"]
            /\ UNCHANGED <<cache_instancias, cache_ultima_actualizacion, fs, ult_scan>>
       ELSE LET cargadas == UNION {ResultadoCargar(c) : c \in CarpetasEnDisco}
                nuevas == UNION {EntradasTrasCargar(c) : c \in CarpetasEnDisco}
            IN  /\ fs' = [c \in Carpetas |-> DiscoTrasCargar(c)]
                /\ \E orden \in Permutaciones(nuevas) :
                       cache_instancias' = cache_instancias \o orden
                /\ ult_llamada' =
                       [tipo |-> "scan", sello |-> ~SortFalla(cargadas),
                        expirado |-> ahora - cache_ultima_actualizacion >= CACHE_DURACION,
                        vacio |-> cache_instancias = <<>>,
                        tras_cache |-> ult_llamada.tipo = "cache"]
                /\ IF SortFalla(cargadas)
                   THEN /\ ult_retorno' = Retorno("excepcion", <<>>)
                        /\ ult_scan' = IF fs' = fs THEN ult_scan ELSE DiscoCambiado
                        /\ UNCHANGED cache_ultima_actualizacion
                   ELSE /\ \E lista \in Ordenadas(cargadas) :
                               /\ ult_retorno' = Retorno("lista", lista)
                               /\ ult_scan' = [hecho |-> TRUE, retorno |-> lista,
                                               intacto |-> TRUE]
                        /\ cache_ultima_actualizacion' = ahora
    /\ UNCHANGED <<ahora, raiz_existe>>
    /\ UNCHANGED <<varsLote, varsCola, varsScan, varsInst, varsDesc, varsVM>>

NextCache ==
    \/ Tick
    \/ CrearRaiz
    \/ \E c \in Carpetas : CambiarCarpeta(c)
    \/ \E c \in Carpetas : EscribirConfig(c)
    \/ \E c \in Carpetas : CrearConfig(c)
    \/ LimpiarCache
    \/ ListarDesdeCache
    \/ ListarConScan

(***************************************************************************)
(* Claims on the instance metadata cache (SpecCache)                       *)
(***************************************************************************)
\* One call of cargar_instancias_optimizado.
Listar == ListarDesdeCache \/ ListarConScan

Transcurrido == ahora - cache_ultima_actualizacion

C11_CacheIgualAScan ==
    (/\ ult_llamada.tipo = "cache"
     /\ ult_scan.hecho
     /\ ult_scan.intacto)
    => ult_retorno.registros = ult_scan.retorno

\* C13: after every scan that ran to its stamp, the cache holds exactly one
\* entry for each record the scan returned and no other entry.
C13_CacheReemplazado ==
    [][(ListarConScan /\ ult_llamada'.sello) =>
          /\ Elementos(cache_instancias') = Elementos(ult_retorno'.registros)
          /\ Len(cache_instancias') = Len(ult_retorno'.registros)]_vars

\* C14: a scan of a root holding at least one directory returns a list, which
\* holds no record of a directory whose config.json is corrupt and a record of
\* every directory whose config.json holds a record with a 'nombre'.
C14_MalaCarpetaAislada ==
    [][(ListarConScan /\ raiz_existe /\ CarpetasEnDisco # {}) =>
          /\ ult_retorno'.forma = "lista"
          /\ \A c \in CarpetasEnDisco :
                /\ fs[c].estado = "corrupta" =>
                       c \notin {r.carpeta : r \in Elementos(ult_retorno'.registros)}
                /\ fs[c].estado \in EstadosConRegistro =>
                       c \in {r.carpeta : r \in Elementos(ult_retorno'.registros)}]_vars

(***************************************************************************)
(* PART 4.  The instance metadata cache under concurrent calls: the        *)
(* interface thread and the thread of verificar_versiones_en_background    *)
(* both call cargar_instancias_optimizado, and each scan loads its         *)
(* directories in the workers of its own pool.  No lock guards the cache   *)
(* or the files.                                                           *)
(***************************************************************************)
NHilosLista == 2      \* threads calling cargar_instancias_optimizado

HilosLista == 1..NHilosLista

\* A worker of the scan of one thread on one directory:
\*   "no"       the directory was not listed by this scan
\*   "inicio"   cargar_instancia_individual submitted, nothing done yet
\*   "escribir" os.path.exists(json_path) was False
\*   "leer"     cache_key computed (mtime holds st_mtime) and not in the cache
\*   "hecho"    returned (res holds the record returned, nothing for None)
SinTrabajo == [pc |-> "no", mtime |-> 0, res |-> {}]

\* d[k] = r on the dict d: a key already there keeps its place.
GuardarEnCache(d, r) ==
    IF ClaveDe(r) \in ClavesCache(d)
    THEN [i \in DOMAIN d |-> IF ClaveDe(d[i]) = ClaveDe(r) THEN r ELSE d[i]]
    ELSE Append(d, r)

\* The scans in progress: the threads between the cache test and the return.
Escaneando == {t \in HilosLista : pc_lista[t] \in {"listar", "cargar"}}

\* A thread calls cargar_instancias_optimizado: tiempo_actual = time.time() and
\* the cache test.  A valid cache is copied and returned at once; every scan in
\* progress has then been observed by a reader.
LlamarLista(t) ==
    /\ pc_lista[t] = "idle"
    /\ IF CacheValido
       THEN /\ retorno_hilo' = [retorno_hilo EXCEPT ![t] = Retorno("dict", cache_instancias)]
            /\ vistos' = [s \in HilosLista |->
                             IF s \in Escaneando THEN vistos[s] \cup {cache_instancias}
                             ELSE vistos[s]]
            /\ UNCHANGED <<pc_lista, tiempo_actual, trabajo, antes, scan_count>>
       ELSE /\ scan_count < MaxScans
            /\ scan_count' = scan_count + 1
            /\ pc_lista' = [pc_lista EXCEPT ![t] = "listar"]
            /\ tiempo_actual' = [tiempo_actual EXCEPT ![t] = ahora]
            /\ antes' = [antes EXCEPT ![t] = cache_instancias]
            /\ vistos' = [vistos EXCEPT ![t] = {}]
            /\ UNCHANGED <<trabajo, retorno_hilo>>
    /\ UNCHANGED <<ahora, cache_instancias, cache_ultima_actualizacion, fs, raiz_existe,
                   ult_llamada, ult_retorno, ult_scan>>
    /\ UNCHANGED <<varsLote, varsCola, varsInst, varsDesc, varsVM>>

\* os.path.exists(instancias_root), os.listdir and the submission of one
\* cargar_instancia_individual per directory; return [] when there is none.
ListarCarpetas(t) ==
    /\ pc_lista[t] = "listar"
    /\ IF ~raiz_existe \/ CarpetasEnDisco = {}
       THEN /\ pc_lista' = [pc_lista EXCEPT ![t] = "idle"]
            /\ retorno_hilo' = [retorno_hilo EXCEPT ![t] = Retorno("lista", <<>>)]
            /\ UNCHANGED trabajo
       ELSE /\ pc_lista' = [pc_lista EXCEPT ![t] = "cargar"]
            /\ trabajo' = [trabajo EXCEPT ![t] =
                              [c \in Carpetas |->
                                  IF c \in CarpetasEnDisco
                                  THEN [pc |-> "inicio", mtime |-> 0, res |-> {}]
                                  ELSE SinTrabajo]]
            /\ UNCHANGED retorno_hilo
    /\ UNCHANGED <<tiempo_actual, antes, vistos>>
    /\ UNCHANGED <<ahora, cache_instancias, cache_ultima_actualizacion, fs, raiz_existe,
                   scan_count, ult_llamada, ult_retorno, ult_scan>>
    /\ UNCHANGED <<varsLote, varsCola, varsInst, varsDesc, varsVM>>

\* cargar_instancia_individual up to its first branch: without config.json it
\* goes on to write the default one; with one it computes cache_key and returns
\* the cached record if the key is in the cache.
CargarInicio(t, c) ==
    /\ pc_lista[t] = "cargar"
    /\ trabajo[t][c].pc = "inicio"
    /\ trabajo' = [trabajo EXCEPT ![t][c] =
           IF fs[c].estado = "sin_config"
           THEN [pc |-> "escribir", mtime |-> 0, res |-> {}]
           ELSE IF CacheKey(c) \in ClavesCache(cache_instancias)
                THEN [pc |-> "hecho", mtime |-> fs[c].mtime,
                      res |-> {ValorCache(cache_instancias, CacheKey(c))}]
                ELSE [pc |-> "leer", mtime |-> fs[c].mtime, res |-> {}]]
    /\ UNCHANGED <<pc_lista, tiempo_actual, antes, vistos, retorno_hilo>>
    /\ UNCHANGED <<ahora, cache_instancias, cache_ultima_actualizacion, fs, raiz_existe,
                   scan_count, ult_llamada, ult_retorno, ult_scan>>
    /\ UNCHANGED <<varsLote, varsCola, varsInst, varsDesc, varsVM>>

\* open(json_path, 'w') and json.dump of the default record, then the file is
\* read back and the record returned (it is not stored in the cache).  The
\* file is written whatever it holds by now; a file that was there gets a new
\* modification time.
EscribirDefault(t, c) ==
    /\ pc_lista[t] = "cargar"
    /\ trabajo[t][c].pc = "escribir"
    /\ fs' = [fs EXCEPT ![c] =
                 [estado |-> "default",
                  mtime |-> IF fs[c].estado = "sin_config"
                            THEN fs[c].mtime ELSE fs[c].mtime + 1]]
    /\ trabajo' = [trabajo EXCEPT ![t][c] =
                      [pc |-> "hecho", mtime |-> 0,
                       res |-> {[carpeta |-> c, mtime |-> fs'[c].mtime,
                                 estado |-> "default"]}]]
    /\ UNCHANGED <<pc_lista, tiempo_actual, antes, vistos, retorno_hilo>>
    /\ UNCHANGED <<ahora, cache_instancias, cache_ultima_actualizacion, raiz_existe,
                   scan_count, ult_llamada, ult_retorno, ult_scan>>
    /\ UNCHANGED <<varsLote, varsCola, varsInst, varsDesc, varsVM>>

\* json.load and the validation; a record is stored in the cache under the
\* cache_key computed before and returned, anything else returns None.
LeerConfig(t, c) ==
    /\ pc_lista[t] = "cargar"
    /\ trabajo[t][c].pc = "leer"
    /\ IF fs[c].estado \in EstadosConRegistro
       THEN LET datos == [carpeta |-> c, mtime |-> trabajo[t][c].mtime,
                          estado |-> fs[c].estado]
            IN  /\ cache_instancias' = GuardarEnCache(cache_instancias, datos)
                /\ trabajo' = [trabajo EXCEPT ![t][c] =
                                  [pc |-> "hecho", mtime |-> @.mtime, res |-> {datos}]]
       ELSE /\ trabajo' = [trabajo EXCEPT ![t][c] =
                              [pc |-> "hecho", mtime |-> @.mtime, res |-> {}]]
            /\ UNCHANGED cache_instancias
    /\ UNCHANGED <<pc_lista, tiempo_actual, antes, vistos, retorno_hilo>>
    /\ UNCHANGED <<ahora, cache_ultima_actualizacion, fs, raiz_existe,
                   scan_count, ult_llamada, ult_retorno, ult_scan>>
    /\ UNCHANGED <<varsLote, varsCola, varsInst, varsDesc, varsVM>>

\* Every worker of the scan of thread t has returned.
TrabajoHecho(t) == \A c \in Carpetas : trabajo[t][c].pc \in {"no", "hecho"}

\* The records appended to instancias.
Cargadas(t) == UNION {trabajo[t][c].res : c \in Carpetas}

\* The with block is left, the list is sorted, the rebuild time is stamped with
\* the time taken when the call began, and the list is returned; a TypeError of
\* the sort leaves the call before the stamp.
FinScan(t) ==
    /\ pc_lista[t] = "cargar"
    /\ TrabajoHecho(t)
    /\ pc_lista' = [pc_lista EXCEPT ![t] = "idle"]
    /\ trabajo' = [trabajo EXCEPT ![t] = [c \in Carpetas |-> SinTrabajo]]
    /\ IF SortFalla(Cargadas(t))
       THEN /\ retorno_hilo' = [retorno_hilo EXCEPT ![t] = Retorno("excepcion", <<>>)]
            /\ UNCHANGED cache_ultima_actualizacion
       ELSE /\ \E lista \in Ordenadas(Cargadas(t)) :
                   retorno_hilo' = [retorno_hilo EXCEPT ![t] = Retorno("lista", lista)]
            /\ cache_ultima_actualizacion' = tiempo_actual[t]
    /\ UNCHANGED <<tiempo_actual, antes, vistos>>
    /\ UNCHANGED <<ahora, cache_instancias, fs, raiz_existe,
                   scan_count, ult_llamada, ult_retorno, ult_scan>>
    /\ UNCHANGED <<varsLote, varsCola, varsInst, varsDesc, varsVM>>

NextScan ==
    \/ \E c \in Carpetas : CrearConfig(c)
    \/ \E t \in HilosLista : LlamarLista(t)
    \/ \E t \in HilosLista : ListarCarpetas(t)
    \/ \E t \in HilosLista, c \in Carpetas : CargarInicio(t, c)
    \/ \E t \in HilosLista, c \in Carpetas : EscribirDefault(t, c)
    \/ \E t \in HilosLista, c \in Carpetas : LeerConfig(t, c)
    \/ \E t \in HilosLista : FinScan(t)

(***************************************************************************)
(* Claims on the cache under concurrent calls (SpecScan)                   *)
(***************************************************************************)
\* C12: every copy of the cache a reader took while a scan was in progress is
\* the cache as it was when that scan began or the cache as it is when that
\* scan ends.
C12_CacheAtomico ==
    [][\A t \in HilosLista :
          FinScan(t) =>
              \A visto \in vistos[t] : visto = antes[t] \/ visto = cache_instancias]_vars

\* C15: a scan writes config.json only in a directory that has none.
C15_SoloCreaSiFalta ==
    [][\A t \in HilosLista, c \in Carpetas :
          EscribirDefault(t, c) => fs[c].estado = "sin_config"]_vars

(***************************************************************************)
(* PART 5.  One install unit: a call of instalar_version_optimizada.       *)
(***************************************************************************)
max_reintentos == 3

TiposUnidad == {"Vanilla", "Forge", "Fabric"}

\* The versions requested in the model: the four of versiones_problematicas
\* and one that is not among them.
versiones_problematicas == {"1.12.2", "1.13.2", "1.14.4", "1.15.2"}
VersionesPedidas == versiones_problematicas \cup {"1.20.1"}

\* versiones_alternativas.get(version, ['1.21.3', '1.20.4', '1.19.4'])
versiones_fallback(v) ==
    IF v = "1.12.2" THEN <<"1.12.1", "1.11.2", "1.10.2">>
    ELSE IF v = "1.13.2" THEN <<"1.13.1", "1.12.2", "1.14.4">>
    ELSE IF v = "1.14.4" THEN <<"1.14.3", "1.13.2", "1.15.2">>
    ELSE IF v = "1.15.2" THEN <<"1.15.1", "1.14.4", "1.16.5">>
    ELSE <<"1.21.3", "1.20.4", "1.19.4">>

\* The version of the last attempt of a Vanilla unit.
VersionMasReciente == "1.21.3"

\* One call of the external installer and how it ended.
Invocacion(objetivo, ok) == [objetivo |-> objetivo, ok |-> ok]

\* callback_progreso called with each value of vals (in hundredths) in turn:
\* every call returns, or one of them raises and the later ones are not made.
\* Without a sink nothing is called.
Entregas(vals) ==
    IF con_sink
    THEN {[dados |-> vals, lanza |-> FALSE]}
         \cup {[dados |-> SubSeq(vals, 1, k), lanza |-> TRUE] : k \in 1..Len(vals)}
    ELSE {[dados |-> <<>>, lanza |-> FALSE]}

\* except Exception of line 883: return False
RetornaFalse ==
    /\ pc_inst' = "retornado"
    /\ retorno_inst' = "False"

\* callback_progreso(0.05)
InstInicio ==
    /\ pc_inst = "inicio"
    /\ \E e \in Entregas(<<5>>) :
          /\ progreso' = progreso \o e.dados
          /\ sink_lanzo' = (sink_lanzo \/ e.lanza)
          /\ IF e.lanza THEN RetornaFalse
             ELSE pc_inst' = "scaffold" /\ UNCHANGED retorno_inst
    /\ UNCHANGED <<remedios, tipo_unidad, version_pedida, version, con_sink, intento, indice_alt,
                   scaffold_fallo, resuelto, historial>>
    /\ UNCHANGED <<varsLote, varsCola, varsCache, varsScan, varsDesc, varsVM>>

\* Scaffold: os.makedirs of the ten directories submitted to a pool and waited
\* for with concurrent.futures.wait, which returns whatever the futures hold:
\* the exception of a creation that failed stays in its future.
InstScaffold ==
    /\ pc_inst = "scaffold"
    /\ \E fallo \in BOOLEAN : scaffold_fallo' = fallo
    /\ pc_inst' = "tras_scaffold"
    /\ UNCHANGED <<remedios, tipo_unidad, version_pedida, version, con_sink, intento, indice_alt,
                   resuelto, historial, progreso, sink_lanzo, retorno_inst>>
    /\ UNCHANGED <<varsLote, varsCola, varsCache, varsScan, varsDesc, varsVM>>

\* callback_progreso(0.15), (0.2) and the (0.3) each branch of tipo begins with.
InstTrasScaffold ==
    /\ pc_inst = "tras_scaffold"
    /\ \E e \in Entregas(<<15, 20, 30>>) :
          /\ progreso' = progreso \o e.dados
          /\ sink_lanzo' = (sink_lanzo \/ e.lanza)
          /\ IF e.lanza THEN RetornaFalse
             ELSE /\ pc_inst' = IF tipo_unidad = "Vanilla" THEN "vanilla_previo"
                                ELSE IF tipo_unidad = "Forge" THEN "forge_buscar"
                                ELSE "fabric_buscar"
                  /\ UNCHANGED retorno_inst
    /\ UNCHANGED <<remedios, tipo_unidad, version_pedida, version, con_sink, intento, indice_alt,
                   scaffold_fallo, resuelto, historial>>
    /\ UNCHANGED <<varsLote, varsCola, varsCache, varsScan, varsDesc, varsVM>>

\* Vanilla, inside the inner try: the special directories of a fragile version
\* and callback_progreso(0.4).  What the sink raises is caught by the except of
\* line 773, which starts the alternative versions.
InstVanillaPrevio ==
    /\ pc_inst = "vanilla_previo"
    /\ \E e \in Entregas(<<40>>) :
          /\ progreso' = progreso \o e.dados
          /\ sink_lanzo' = (sink_lanzo \/ e.lanza)
          /\ pc_inst' = IF e.lanza THEN "vanilla_alt" ELSE "vanilla_primaria"
    /\ UNCHANGED <<remedios, tipo_unidad, version_pedida, version, con_sink, intento, indice_alt,
                   scaffold_fallo, resuelto, historial, retorno_inst>>
    /\ UNCHANGED <<varsLote, varsCola, varsCache, varsScan, varsDesc, varsVM>>

\* minecraft_launcher_lib.install.install_minecraft_version(version, ...)
InstVanillaPrimaria ==
    /\ pc_inst = "vanilla_primaria"
    /\ \E ok \in BOOLEAN :
          /\ historial' = Append(historial, Invocacion(version, ok))
          /\ pc_inst' = IF ok THEN "vanilla_hecha" ELSE "vanilla_alt"
    /\ UNCHANGED <<remedios, tipo_unidad, version_pedida, version, con_sink, intento, indice_alt,
                   scaffold_fallo, resuelto, progreso, sink_lanzo, retorno_inst>>
    /\ UNCHANGED <<varsLote, varsCola, varsCache, varsScan, varsDesc, varsVM>>

\* callback_progreso(0.85) after the primary install, still inside the inner
\* try: what the sink raises is caught by the except of line 773.
InstVanillaHecha ==
    /\ pc_inst = "vanilla_hecha"
    /\ \E e \in Entregas(<<85>>) :
          /\ progreso' = progreso \o e.dados
          /\ sink_lanzo' = (sink_lanzo \/ e.lanza)
          /\ pc_inst' = IF e.lanza THEN "vanilla_alt" ELSE "final"
    /\ UNCHANGED <<remedios, tipo_unidad, version_pedida, version, con_sink, intento, indice_alt,
                   scaffold_fallo, resuelto, historial, retorno_inst>>
    /\ UNCHANGED <<varsLote, varsCola, varsCache, varsScan, varsDesc, varsVM>>

\* version_alt of the current iteration of for version_alt in versiones_fallback
VersionAlt == versiones_fallback(version)[indice_alt]

\* for version_alt in versiones_fallback: one alternative is installed; the
\* first that succeeds is bound to the local name version and ends the loop.
InstVanillaAlternativa ==
    /\ pc_inst = "vanilla_alt"
    /\ LET version_alt == VersionAlt
       IN  \E ok \in BOOLEAN :
              /\ historial' = Append(historial, Invocacion(version_alt, ok))
              /\ IF ok
                 THEN /\ version' = version_alt
                      /\ pc_inst' = "final"
                      /\ UNCHANGED indice_alt
                 ELSE /\ UNCHANGED version
                      /\ IF indice_alt = Len(versiones_fallback(version))
                         THEN pc_inst' = "vanilla_ultima" /\ UNCHANGED indice_alt
                         ELSE indice_alt' = indice_alt + 1 /\ UNCHANGED pc_inst
    /\ UNCHANGED <<remedios, tipo_unidad, version_pedida, con_sink, intento,
                   scaffold_fallo, resuelto, progreso, sink_lanzo, retorno_inst>>
    /\ UNCHANGED <<varsLote, varsCola, varsCache, varsScan, varsDesc, varsVM>>

\* The else of the for loop: the last attempt with 1.21.3; raise e when it
\* fails too.
InstVanillaUltima ==
    /\ pc_inst = "vanilla_ultima"
    /\ \E ok \in BOOLEAN :
          /\ historial' = Append(historial, Invocacion(VersionMasReciente, ok))
          /\ IF ok
             THEN /\ version' = VersionMasReciente
                  /\ pc_inst' = "final"
                  /\ UNCHANGED retorno_inst
             ELSE /\ RetornaFalse
                  /\ UNCHANGED version
    /\ UNCHANGED <<remedios, tipo_unidad, version_pedida, con_sink, intento, indice_alt,
                   scaffold_fallo, resuelto, progreso, sink_lanzo>>
    /\ UNCHANGED <<varsLote, varsCola, varsCache, varsScan, varsDesc, varsVM>>

\* raise Exception("No se encontró versión de Forge"), caught by the except of
\* line 883.
SinVersionForge_instala == pc_inst' = "forge_intento" /\ UNCHANGED retorno_inst
SinVersionForge == RetornaFalse

\* Forge: find_forge_version; without a build the unit raises at once, with
\* one it cleans the temporary files and calls callback_progreso(0.5).
InstForgeBuscar ==
    /\ pc_inst = "forge_buscar"
    /\ \E forge_version \in BOOLEAN :
          /\ resuelto' = IF forge_version THEN "si" ELSE "no"
          /\ IF forge_version
             THEN \E e \in Entregas(<<50>>) :
                     /\ progreso' = progreso \o e.dados
                     /\ sink_lanzo' = (sink_lanzo \/ e.lanza)
                     /\ IF e.lanza THEN RetornaFalse
                        ELSE pc_inst' = "forge_intento" /\ UNCHANGED retorno_inst
             ELSE /\ SinVersionForge
                  /\ UNCHANGED <<progreso, sink_lanzo>>
    /\ UNCHANGED <<remedios, tipo_unidad, version_pedida, version, con_sink, intento, indice_alt,
                   scaffold_fallo, historial>>
    /\ UNCHANGED <<varsLote, varsCola, varsCache, varsScan, varsDesc, varsVM>>

\* The loop of instalar_forge_con_reintentos continues after a failed attempt
\* unless it was the last one.
HayOtroIntento_uno_menos == intento # max_reintentos - 2
HayOtroIntento == intento # max_reintentos - 1

\* error_msg = str(e): whether it holds "InvalidChecksum" or "checksum", and
\* whether it holds "PermissionError" or "WinError 32".
Marcas == [checksum : BOOLEAN, permisos : BOOLEAN]

\* What runs after a failed attempt that is not the last, for the marks m of
\* its message: two independent tests, then time.sleep(1.5).
Remedios_excluyentes(m) ==
    IF m.checksum THEN {"limpiar_cache_forge", "sleep_1_5"}
    ELSE IF m.permisos THEN {"sleep_2", "sleep_1_5"}
    ELSE {"sleep_1_5"}
Remedios(m) ==
    (IF m.checksum THEN {"limpiar_cache_forge"} ELSE {})
        \cup (IF m.permisos THEN {"sleep_2"} ELSE {})
        \cup {"sleep_1_5"}

\* One iteration of for intento in range(max_reintentos): install_forge_version
\* returns (return True) or raises; the last failure is raised to the unit, an
\* earlier one is followed by the remedies its message calls for.
InstForgeIntento ==
    /\ pc_inst = "forge_intento"
    /\ \E ok \in BOOLEAN :
          /\ historial' = Append(historial, Invocacion("forge", ok))
          /\ IF ok
             THEN /\ pc_inst' = "forge_hecho"
                  /\ UNCHANGED <<intento, retorno_inst, remedios>>
             ELSE IF HayOtroIntento
                  THEN /\ intento' = intento + 1
                       /\ \E m \in Marcas :
                              remedios' = Append(remedios, [marcas |-> m, acciones |-> Remedios(m)])
                       /\ UNCHANGED <<pc_inst, retorno_inst>>
                  ELSE /\ RetornaFalse
                       /\ UNCHANGED <<intento, remedios>>
    /\ UNCHANGED <<tipo_unidad, version_pedida, version, con_sink, indice_alt,
                   scaffold_fallo, resuelto, progreso, sink_lanzo>>
    /\ UNCHANGED <<varsLote, varsCola, varsCache, varsScan, varsDesc, varsVM>>

\* callback_progreso(0.85) after instalar_forge_con_reintentos returned.
InstForgeHecho ==
    /\ pc_inst = "forge_hecho"
    /\ \E e \in Entregas(<<85>>) :
          /\ progreso' = progreso \o e.dados
          /\ sink_lanzo' = (sink_lanzo \/ e.lanza)
          /\ IF e.lanza THEN RetornaFalse
             ELSE pc_inst' = "final" /\ UNCHANGED retorno_inst
    /\ UNCHANGED <<remedios, tipo_unidad, version_pedida, version, con_sink, intento, indice_alt,
                   scaffold_fallo, resuelto, historial>>
    /\ UNCHANGED <<varsLote, varsCola, varsCache, varsScan, varsDesc, varsVM>>

\* Fabric: encontrar_version_fabric returns the loader information or None,
\* then callback_progreso(0.5).
InstFabricBuscar ==
    /\ pc_inst = "fabric_buscar"
    /\ \E fabric_info \in BOOLEAN :
          /\ resuelto' = IF fabric_info THEN "si" ELSE "no"
          /\ \E e \in Entregas(<<50>>) :
                /\ progreso' = progreso \o e.dados
                /\ sink_lanzo' = (sink_lanzo \/ e.lanza)
                /\ IF e.lanza THEN RetornaFalse
                   ELSE /\ pc_inst' = IF fabric_info THEN "fabric_especifica"
                                      ELSE "fabric_basica"
                        /\ UNCHANGED retorno_inst
    /\ UNCHANGED <<remedios, tipo_unidad, version_pedida, version, con_sink, intento, indice_alt,
                   scaffold_fallo, historial>>
    /\ UNCHANGED <<varsLote, varsCola, varsCache, varsScan, varsDesc, varsVM>>

\* instalar_fabric_version: how one call can end.  It installs and returns
\* True, the installer raises and it returns False, or (the directory
\* 'versions' could not be made) os.makedirs raises and it returns False
\* without calling the installer.
FinesFabric == IF scaffold_fallo THEN {"ok", "falla", "sin_invocar"} ELSE {"ok", "falla"}

\* The calls of the installer a call of instalar_fabric_version adds.
TrasFabric(objetivo, fin) ==
    IF fin = "sin_invocar" THEN historial
    ELSE Append(historial, Invocacion(objetivo, fin = "ok"))

\* exito = instalar_fabric_version(version, carpeta_destino, fabric_version)
InstFabricEspecifica ==
    /\ pc_inst = "fabric_especifica"
    /\ \E fin \in FinesFabric :
          /\ historial' = TrasFabric("fabric_especifica", fin)
          /\ pc_inst' = IF fin = "ok" THEN "fabric_hecho" ELSE "fabric_basica_2"
    /\ UNCHANGED <<remedios, tipo_unidad, version_pedida, version, con_sink, intento, indice_alt,
                   scaffold_fallo, resuelto, progreso, sink_lanzo, retorno_inst>>
    /\ UNCHANGED <<varsLote, varsCola, varsCache, varsScan, varsDesc, varsVM>>

\* After the install with the loader version failed:
\* exito = instalar_fabric_version(version, carpeta_destino, None), and
\* raise Exception("No se pudo instalar Fabric") when it fails too.
InstFabricBasicaTrasEspecifica ==
    /\ pc_inst = "fabric_basica_2"
    /\ \E fin \in FinesFabric :
          /\ historial' = TrasFabric("fabric_basica", fin)
          /\ IF fin = "ok"
             THEN pc_inst' = "fabric_hecho" /\ UNCHANGED retorno_inst
             ELSE RetornaFalse
    /\ UNCHANGED <<remedios, tipo_unidad, version_pedida, version, con_sink, intento, indice_alt,
                   scaffold_fallo, resuelto, progreso, sink_lanzo>>
    /\ UNCHANGED <<varsLote, varsCola, varsCache, varsScan, varsDesc, varsVM>>

\* Without loader information:
\* exito = instalar_fabric_version(version, carpeta_destino, None); when it
\* fails the unit goes on to call install_fabric directly.
InstFabricBasica ==
    /\ pc_inst = "fabric_basica"
    /\ \E fin \in FinesFabric :
          /\ historial' = TrasFabric("fabric_basica", fin)
          /\ pc_inst' = IF fin = "ok" THEN "fabric_hecho" ELSE "fabric_directa"
    /\ UNCHANGED <<remedios, tipo_unidad, version_pedida, version, con_sink, intento, indice_alt,
                   scaffold_fallo, resuelto, progreso, sink_lanzo, retorno_inst>>
    /\ UNCHANGED <<varsLote, varsCola, varsCache, varsScan, varsDesc, varsVM>>

\* minecraft_launcher_lib.fabric.install_fabric(version, carpeta_destino); exito = True
InstFabricDirecta ==
    /\ pc_inst = "fabric_directa"
    /\ \E ok \in BOOLEAN :
          /\ historial' = Append(historial, Invocacion("fabric_directa", ok))
          /\ IF ok
             THEN pc_inst' = "fabric_hecho" /\ UNCHANGED retorno_inst
             ELSE RetornaFalse
    /\ UNCHANGED <<remedios, tipo_unidad, version_pedida, version, con_sink, intento, indice_alt,
                   scaffold_fallo, resuelto, progreso, sink_lanzo>>
    /\ UNCHANGED <<varsLote, varsCola, varsCache, varsScan, varsDesc, varsVM>>

\* callback_progreso(0.85) at the end of the Fabric branch.
InstFabricHecho ==
    /\ pc_inst = "fabric_hecho"
    /\ \E e \in Entregas(<<85>>) :
          /\ progreso' = progreso \o e.dados
          /\ sink_lanzo' = (sink_lanzo \/ e.lanza)
          /\ IF e.lanza THEN RetornaFalse
             ELSE pc_inst' = "final" /\ UNCHANGED retorno_inst
    /\ UNCHANGED <<remedios, tipo_unidad, version_pedida, version, con_sink, intento, indice_alt,
                   scaffold_fallo, resuelto, historial>>
    /\ UNCHANGED <<varsLote, varsCola, varsCache, varsScan, varsDesc, varsVM>>

\* The values the Bookkeeping gives to the sink.
ValoresFinales == <<80, 100>>

\* Bookkeeping: callback_progreso(0.8), callback_progreso(1.0), return True.
InstFinal ==
    /\ pc_inst = "final"
    /\ \E e \in Entregas(ValoresFinales) :
          /\ progreso' = progreso \o e.dados
          /\ sink_lanzo' = (sink_lanzo \/ e.lanza)
          /\ pc_inst' = "retornado"
          /\ retorno_inst' = IF e.lanza THEN "False" ELSE "True"
    /\ UNCHANGED <<remedios, tipo_unidad, version_pedida, version, con_sink, intento, indice_alt,
                   scaffold_fallo, resuelto, historial>>
    /\ UNCHANGED <<varsLote, varsCola, varsCache, varsScan, varsDesc, varsVM>>

NextInst ==
    \/ InstInicio
    \/ InstScaffold
    \/ InstTrasScaffold
    \/ InstVanillaPrevio
    \/ InstVanillaPrimaria
    \/ InstVanillaHecha
    \/ InstVanillaAlternativa
    \/ InstVanillaUltima
    \/ InstForgeBuscar
    \/ InstForgeIntento
    \/ InstForgeHecho
    \/ InstFabricBuscar
    \/ InstFabricEspecifica
    \/ InstFabricBasicaTrasEspecifica
    \/ InstFabricBasica
    \/ InstFabricDirecta
    \/ InstFabricHecho
    \/ InstFinal

(***************************************************************************)
(* Claims on the install unit (SpecInst)                                   *)
(***************************************************************************)
Retornada == pc_inst = "retornado"

\* Every call of the external installer made so far has failed.
InstaladorFallaSiempre == \A i \in DOMAIN historial : ~historial[i].ok

\* What the caller of the unit holds as the installed version once the call has
\* returned: the unit returns a bare bool and the binding version = version_alt
\* is local to it, so the caller is left with the version it asked for.
VersionReportada == version_pedida

\* C16 as claimed: a unit that has gone through its loader-install phase with
\* every call of the external installer failing has called it exactly 3 times
\* and returns failure.
C16_TresIntentos_Original ==
    (Retornada /\ ~sink_lanzo /\ InstaladorFallaSiempre) =>
        /\ Len(historial) = max_reintentos
        /\ retorno_inst = "False"

\* C16 as amended: a Forge unit that calls the external installer and whose
\* every call of it fails calls it exactly 3 times and then returns failure; no
\* Forge unit calls it more than 3 times.
C16_TresIntentos ==
    tipo_unidad = "Forge" =>
        /\ Len(historial) <= max_reintentos
        /\ (Retornada /\ historial # <<>> /\ InstaladorFallaSiempre) =>
               /\ Len(historial) = max_reintentos
               /\ retorno_inst = "False"

\* C16 witness: a Forge unit that returned failure after three failed calls of
\* the installer.
C16_Witness ==
    /\ tipo_unidad = "Forge"
    /\ Retornada
    /\ resuelto = "si"
    /\ ~sink_lanzo
    /\ Len(historial) = 3
    /\ InstaladorFallaSiempre
    /\ retorno_inst = "False"

\* C17: a Vanilla unit asked for a fragile version whose primary install failed
\* and for which an alternative version was then installed returns success, and
\* the version its result reports is the alternative installed.
C17_ReportaAlternativa ==
    (/\ Retornada
     /\ tipo_unidad = "Vanilla"
     /\ version_pedida \in versiones_problematicas
     /\ ~sink_lanzo
     /\ Len(historial) >= 2
     /\ ~historial[1].ok
     /\ historial[Len(historial)].ok
     /\ historial[Len(historial)].objetivo \in Elementos(versiones_fallback(version_pedida)))
    => /\ retorno_inst = "True"
       /\ VersionReportada = historial[Len(historial)].objetivo

\* C18: when a directory creation of the Scaffold phase has failed the external
\* installer is never called and the unit returns failure; when the last call
\* of the installer failed the unit returns failure and the sink never gets 1.0.
C18_FasesAbortan ==
    /\ scaffold_fallo =>
           /\ historial = <<>>
           /\ Retornada => retorno_inst = "False"
    /\ (Retornada /\ historial # <<>> /\ ~historial[Len(historial)].ok) =>
           /\ retorno_inst = "False"
           /\ 100 \notin Elementos(progreso)

\* C19: once a call of the external installer has succeeded, or the unit has
\* returned, the installer is not called again; the retry loop is re-entered at
\* most 2 times.
C19_Terminales ==
    [][/\ ((\E i \in DOMAIN historial : historial[i].ok) \/ Retornada) =>
              historial' = historial
       /\ intento' <= max_reintentos - 1]_vars

\* C20: a Fabric unit whose loader information did not resolve makes the basic
\* install as its first install, and when that install fails it makes no other
\* and returns failure.
C20_FabricSinOtroIntento ==
    (/\ tipo_unidad = "Fabric"
     /\ resuelto = "no"
     /\ ~scaffold_fallo
     /\ historial # <<>>)
    => /\ historial[1].objetivo = "fabric_basica"
       /\ ~historial[1].ok =>
              /\ Len(historial) = 1
              /\ Retornada
              /\ retorno_inst = "False"

(***************************************************************************)
(* Further claim on the instance metadata cache (SpecCache)                *)
(***************************************************************************)
\* C26: every record a scan returns carries, as the time of its key, the
\* modification time config.json has at the scan, and is the record of the
\* file as it is on disk: an entry stored under an earlier modification time
\* is not returned, the file is read again.
C26_ClaveConMtime ==
    [][(scan_count' = scan_count + 1 /\ ult_retorno'.forma = "lista") =>
          \A r \in Elementos(ult_retorno'.registros) :
              /\ r.mtime = fs[r.carpeta].mtime
              /\ r.estado = fs'[r.carpeta].estado]_vars

\* C26 witness: the cache holds two entries of one directory, stored under two
\* modification times, and the last scan returned the one of the file as it is
\* now.
C26_Witness ==
    /\ ult_retorno.forma = "lista"
    /\ ult_llamada.tipo = "scan"
    /\ \E r1, r2 \in Elementos(cache_instancias) :
          /\ r1.carpeta = r2.carpeta
          /\ r1.mtime < r2.mtime
          /\ r1.estado # r2.estado
          /\ fs[r2.carpeta] = [estado |-> r2.estado, mtime |-> r2.mtime]
          /\ r2 \in Elementos(ult_retorno.registros)
          /\ r1 \notin Elementos(ult_retorno.registros)

(***************************************************************************)
(* Further claims on the install unit (SpecInst)                           *)
(***************************************************************************)
Ultimo(s) == s[Len(s)]

\* C21: a Forge unit for which no Forge build resolves fails at once: it has
\* returned False, the external installer was never called, no retry was made
\* and no other version was tried.
C21_ForgeSinBuild ==
    (tipo_unidad = "Forge" /\ resuelto = "no") =>
        /\ Retornada
        /\ retorno_inst = "False"
        /\ historial = <<>>
        /\ intento = 0
        /\ remedios = <<>>
        /\ version = version_pedida

\* C21 witness: a Forge unit has returned after find_forge_version found no
\* build.
C21_Witness ==
    /\ tipo_unidad = "Forge"
    /\ resuelto = "no"
    /\ Retornada
    /\ retorno_inst = "False"

\* C23: the values given to the sink during one install unit never decrease
\* and lie between 0.0 and 1.0.
C23_ProgresoMonotono ==
    /\ \A i \in DOMAIN progreso : progreso[i] >= 0 /\ progreso[i] <= 100
    /\ \A i, j \in DOMAIN progreso : i < j => progreso[i] <= progreso[j]

\* The marks of the message of a failed attempt decide what runs before the
\* next one.
PurgaSoloChecksum ==
    \A i \in DOMAIN remedios :
        "limpiar_cache_forge" \in remedios[i].acciones <=> remedios[i].marcas.checksum
PausaLargaSoloPermisos ==
    \A i \in DOMAIN remedios :
        "sleep_2" \in remedios[i].acciones <=> remedios[i].marcas.permisos
OtroSoloPausaCorta ==
    \A i \in DOMAIN remedios :
        (~remedios[i].marcas.checksum /\ ~remedios[i].marcas.permisos)
            => remedios[i].acciones = {"sleep_1_5"}

\* C24 as claimed: every failed attempt but the last falls in exactly one of
\* the classes Checksum, Permission, Other and only the remedy of that class
\* runs: the purge of the library cache for Checksum alone, the longer pause
\* for Permission alone, and only the shorter pause for Other.
C24_UnaSolaClase_Original ==
    /\ Len(remedios) = intento
    /\ PurgaSoloChecksum
    /\ PausaLargaSoloPermisos
    /\ OtroSoloPausaCorta
    /\ \A i \in DOMAIN remedios :
          ~({"limpiar_cache_forge", "sleep_2"} \subseteq remedios[i].acciones)

\* C24 as amended: after every failed attempt but the last the purge of the
\* library cache runs exactly when the message carries a checksum mark, the
\* longer pause exactly when it carries a permission mark (both when it
\* carries both), and the shorter pause runs in every case.
C24_RemedioPorMarca ==
    /\ Len(remedios) = intento
    /\ PurgaSoloChecksum
    /\ PausaLargaSoloPermisos
    /\ OtroSoloPausaCorta
    /\ \A i \in DOMAIN remedios : "sleep_1_5" \in remedios[i].acciones

\* C24 witness: a failed attempt whose message carried both marks was followed
\* by both remedies and by another attempt.
C24_Witness ==
    /\ Len(historial) >= 2
    /\ remedios # <<>>
    /\ remedios[1].marcas.checksum
    /\ remedios[1].marcas.permisos
    /\ remedios[1].acciones = {"limpiar_cache_forge", "sleep_2", "sleep_1_5"}

\* A Vanilla unit whose first call of the installer was for the version asked
\* for and failed.
PrimariaFallida ==
    /\ tipo_unidad = "Vanilla"
    /\ historial # <<>>
    /\ historial[1].objetivo = version_pedida
    /\ ~historial[1].ok

\* The alternatives are tried in the order of the list, a success ends the
\* tries, the fifth call is the one for 1.21.3 and comes after every
\* alternative failed, and its failure is the failure of the unit.
EscaleraEnOrden ==
    LET alts == versiones_fallback(version_pedida)
        n == Len(historial)
    IN  /\ \A i \in 2..n : i <= Len(alts) + 1 => historial[i].objetivo = alts[i - 1]
        /\ \A i \in 2..n : historial[i].ok => i = n
        /\ n > Len(alts) + 1 => historial[n].objetivo = VersionMasReciente
        /\ (Retornada /\ ~historial[n].ok) => retorno_inst = "False"
        /\ (Retornada /\ retorno_inst = "False" /\ ~sink_lanzo) =>
               (n = Len(alts) + 2 /\ ~historial[n].ok)

\* C25: after a failed primary install of a Vanilla unit the
\* alternatives are tried in list order up to the first success, 1.21.3 is
\* tried last only when all of them failed, the result of that last try (or of
\* the alternative that succeeded) is the result of the unit, and no unit calls
\* the installer more than 5 times.
C25_Escalera ==
    /\ tipo_unidad = "Vanilla" => Len(historial) <= 5
    /\ PrimariaFallida =>
          /\ EscaleraEnOrden
          /\ (Retornada /\ Ultimo(historial).ok) => retorno_inst = "True"

\* C27: a unit called with a sink has given it 1.0 exactly when it
\* returns True, 1.0 is then the last value given, and a unit that returns
\* False has never given 1.0.
C27_UnoSiiTrue ==
    (Retornada /\ con_sink) =>
        /\ (100 \in Elementos(progreso)) <=> (retorno_inst = "True")
        /\ retorno_inst = "True" => Ultimo(progreso) = 100

(***************************************************************************)
(* PART 6.  One batch of transfers: a call of multidescarga_archivos, each *)
(* task run by a pool thread as descargar_individual, which calls          *)
(* descargar_archivo_optimizado.  The pool has MAX_CONCURRENT_DOWNLOADS    *)
(* threads and the batches of the model are smaller, so every task has a   *)
(* thread.                                                                 *)
(***************************************************************************)
MaxDesc == 2          \* tasks of the largest batch
MaxTrozos == 2        \* chunks iter_content yields for one transfer

TareasDesc == 1..n_desc

\* Where a task goes when requests.get, raise_for_status, the reading of the
\* content-length header or open(destino, 'wb') raises: the except of line
\* 697 returns False and descargar_individual goes on to count the task.
PcTrasFalloConexion_reintenta == "nueva"
PcTrasFalloConexion == "contar"

\* if callback_progreso and total_size > 0
LlamaSink_sin_longitud(t) == sink_desc
LlamaSink(t) == sink_desc /\ total_size[t] > 0

\* response = requests.get(url, stream=True, timeout=30), raise_for_status(),
\* total_size = int(response.headers.get('content-length', 0)) and
\* open(destino, 'wb'): one connection, which fails or yields the response with
\* the length its header reports (0 when it reports none).
DescConectar(t) ==
    /\ pc_multi = "corriendo"
    /\ pc_desc[t] = "nueva"
    /\ conexiones' = [conexiones EXCEPT ![t] = @ + 1]
    /\ \/ /\ error_desc' = [error_desc EXCEPT ![t] = TRUE]
          /\ exito_desc' = [exito_desc EXCEPT ![t] = "False"]
          /\ pc_desc' = [pc_desc EXCEPT ![t] = PcTrasFalloConexion]
          /\ UNCHANGED total_size
       \/ /\ \E longitud \in 0..MaxTrozos :
                total_size' = [total_size EXCEPT ![t] = longitud]
          /\ pc_desc' = [pc_desc EXCEPT ![t] = "cuerpo"]
          /\ UNCHANGED <<error_desc, exito_desc>>
    /\ UNCHANGED <<n_desc, sink_desc, trozos, descargado, llamadas_sink, ult_valor,
                   sink_desc_lanzo, leido, descargas_completadas, max_agregado,
                   resultados_desc, pc_multi>>
    /\ UNCHANGED <<varsLote, varsCola, varsCache, varsScan, varsInst, varsVM>>

\* return of descargar_archivo_optimizado for task t with the value valor:
\* its locals are gone, and so is the account of the sink calls of the
\* transfer in progress.
RetornaDesc(t, valor) ==
    /\ exito_desc' = [exito_desc EXCEPT ![t] = valor]
    /\ pc_desc' = [pc_desc EXCEPT ![t] = "contar"]
    /\ total_size' = [total_size EXCEPT ![t] = 0]
    /\ trozos' = [trozos EXCEPT ![t] = 0]
    /\ descargado' = [descargado EXCEPT ![t] = 0]
    /\ llamadas_sink' = [llamadas_sink EXCEPT ![t] = 0]
    /\ ult_valor' = [ult_valor EXCEPT ![t] = <<0, 0>>]

\* One iteration of for chunk in response.iter_content(...): an empty chunk is
\* passed over; a chunk with content is written (f.write may raise), counted
\* in descargado and, with a sink and a length, reported as
\* descargado / total_size (the sink may raise).  What is raised ends the
\* transfer with False.
DescTrozo(t) ==
    /\ pc_desc[t] = "cuerpo"
    /\ trozos[t] < MaxTrozos
    /\ \/ \* if chunk: is false
          /\ trozos' = [trozos EXCEPT ![t] = @ + 1]
          /\ UNCHANGED <<descargado, llamadas_sink, ult_valor, sink_desc_lanzo, error_desc,
                         exito_desc, pc_desc, total_size>>
       \/ \* f.write(chunk) raises
          /\ error_desc' = [error_desc EXCEPT ![t] = TRUE]
          /\ RetornaDesc(t, "False")
          /\ UNCHANGED sink_desc_lanzo
       \/ \* the chunk is written
          IF LlamaSink(t)
          THEN \E lanza \in BOOLEAN :
                  IF lanza
                  THEN /\ sink_desc_lanzo' = [sink_desc_lanzo EXCEPT ![t] = TRUE]
                       /\ RetornaDesc(t, "False")
                       /\ UNCHANGED error_desc
                  ELSE /\ trozos' = [trozos EXCEPT ![t] = @ + 1]
                       /\ descargado' = [descargado EXCEPT ![t] = @ + 1]
                       /\ llamadas_sink' = [llamadas_sink EXCEPT ![t] = @ + 1]
                       /\ ult_valor' = [ult_valor EXCEPT ![t] = <<descargado'[t], total_size[t]>>]
                       /\ UNCHANGED <<sink_desc_lanzo, error_desc, exito_desc, pc_desc,
                                      total_size>>
          ELSE /\ trozos' = [trozos EXCEPT ![t] = @ + 1]
               /\ descargado' = [descargado EXCEPT ![t] = @ + 1]
               /\ UNCHANGED <<llamadas_sink, ult_valor, sink_desc_lanzo, error_desc,
                              exito_desc, pc_desc, total_size>>
    /\ UNCHANGED <<n_desc, sink_desc, conexiones, leido, descargas_completadas,
                   max_agregado, resultados_desc, pc_multi>>
    /\ UNCHANGED <<varsLote, varsCola, varsCache, varsScan, varsInst, varsVM>>

\* The iteration over the body ends: the body is complete and the function
\* returns True, or the connection broke and iter_content raised.
DescFinCuerpo(t) ==
    /\ pc_desc[t] = "cuerpo"
    /\ \E roto \in BOOLEAN :
          /\ error_desc' = [error_desc EXCEPT ![t] = roto]
          /\ RetornaDesc(t, IF roto THEN "False" ELSE "True")
    /\ UNCHANGED <<n_desc, sink_desc, conexiones, sink_desc_lanzo, leido,
                   descargas_completadas, max_agregado, resultados_desc, pc_multi>>
    /\ UNCHANGED <<varsLote, varsCola, varsCache, varsScan, varsInst, varsVM>>

\* descargas_completadas += 1 on the cell shared by the pool threads is a read
\* of the cell followed by a write of it; nothing keeps another thread from
\* running in between.  This is the read, in the try ("contar") or in the
\* except ("contar_exc") of descargar_individual.
DescLeerContador(t) ==
    /\ pc_desc[t] \in {"contar", "contar_exc"}
    /\ leido' = [leido EXCEPT ![t] = descargas_completadas]
    /\ pc_desc' = [pc_desc EXCEPT ![t] = IF pc_desc[t] = "contar" THEN "sumar" ELSE "sumar_exc"]
    /\ UNCHANGED <<n_desc, sink_desc, conexiones, total_size, trozos, descargado,
                   llamadas_sink, ult_valor, sink_desc_lanzo, error_desc, exito_desc,
                   descargas_completadas, max_agregado, resultados_desc, pc_multi>>
    /\ UNCHANGED <<varsLote, varsCola, varsCache, varsScan, varsInst, varsVM>>

\* The write of descargas_completadas += 1.  In the try the task goes on to
\* report the aggregate progress when there is a sink and else returns
\* (nombre, exito); in the except it returns (nombre, False).
DescEscribirContador(t) ==
    /\ pc_desc[t] \in {"sumar", "sumar_exc"}
    /\ descargas_completadas' = leido[t] + 1
    /\ leido' = [leido EXCEPT ![t] = 0]
    /\ IF pc_desc[t] = "sumar" /\ sink_desc
       THEN /\ pc_desc' = [pc_desc EXCEPT ![t] = "agregar"]
            /\ UNCHANGED resultados_desc
       ELSE /\ pc_desc' = [pc_desc EXCEPT ![t] = "hecha"]
            /\ resultados_desc' =
                  [resultados_desc EXCEPT ![t] = IF pc_desc[t] = "sumar" THEN exito_desc[t]
                                                 ELSE "False"]
    /\ UNCHANGED <<n_desc, sink_desc, conexiones, total_size, trozos, descargado,
                   llamadas_sink, ult_valor, sink_desc_lanzo, error_desc, exito_desc,
                   max_agregado, pc_multi>>
    /\ UNCHANGED <<varsLote, varsCola, varsCache, varsScan, varsInst, varsVM>>

Mayor(a, b) == IF a >= b THEN a ELSE b

\* progreso = mostrar_progreso_multidescarga(descargas_totales,
\* descargas_completadas, ...) and callback_progreso(progreso): the value is
\* the cell as it is now over the size of the batch.  A sink that raises sends
\* the task to the except of descargar_individual, which counts it again.
DescAgregar(t) ==
    /\ pc_desc[t] = "agregar"
    /\ max_agregado' = Mayor(max_agregado, descargas_completadas)
    /\ \E lanza \in BOOLEAN :
          IF lanza
          THEN /\ sink_desc_lanzo' = [sink_desc_lanzo EXCEPT ![t] = TRUE]
               /\ pc_desc' = [pc_desc EXCEPT ![t] = "contar_exc"]
               /\ UNCHANGED resultados_desc
          ELSE /\ pc_desc' = [pc_desc EXCEPT ![t] = "hecha"]
               /\ resultados_desc' = [resultados_desc EXCEPT ![t] = exito_desc[t]]
               /\ UNCHANGED sink_desc_lanzo
    /\ UNCHANGED <<n_desc, sink_desc, conexiones, total_size, trozos, descargado,
                   llamadas_sink, ult_valor, error_desc, exito_desc, leido,
                   descargas_completadas, pc_multi>>
    /\ UNCHANGED <<varsLote, varsCola, varsCache, varsScan, varsInst, varsVM>>

\* Every future has been collected by as_completed: return resultados.
MultiRetornar ==
    /\ pc_multi = "corriendo"
    /\ \A t \in TareasDesc : pc_desc[t] = "hecha"
    /\ pc_multi' = "retornado"
    /\ UNCHANGED <<n_desc, sink_desc, pc_desc, conexiones, total_size, trozos, descargado,
                   llamadas_sink, ult_valor, sink_desc_lanzo, error_desc, exito_desc,
                   leido, descargas_completadas, max_agregado, resultados_desc>>
    /\ UNCHANGED <<varsLote, varsCola, varsCache, varsScan, varsInst, varsVM>>

NextDesc ==
    \/ \E t \in TareasDesc : DescConectar(t)
    \/ \E t \in TareasDesc : DescTrozo(t)
    \/ \E t \in TareasDesc : DescFinCuerpo(t)
    \/ \E t \in TareasDesc : DescLeerContador(t)
    \/ \E t \in TareasDesc : DescEscribirContador(t)
    \/ \E t \in TareasDesc : DescAgregar(t)
    \/ MultiRetornar

(***************************************************************************)
(* Claims on the batch of transfers (SpecDesc)                             *)
(***************************************************************************)
\* descargar_archivo_optimizado has returned for task t.
TransferidaDesc(t) == pc_desc[t] \notin {"nueva", "cuerpo"}

\* C22: no transfer is tried again: every task of a batch makes one connection
\* and no more, and the task whose transfer failed is in the results with
\* False.
C22_SinReintento ==
    \A t \in TareasDesc :
        /\ conexiones[t] <= 1
        /\ TransferidaDesc(t) => conexiones[t] = 1
        /\ pc_multi = "retornado" =>
              /\ resultados_desc[t] \in {"True", "False"}
              /\ exito_desc[t] = "False" => resultados_desc[t] = "False"

\* C22 witness: a batch has returned in which a transfer failed.
C22_Witness ==
    /\ pc_multi = "retornado"
    /\ \E t \in TareasDesc :
          /\ error_desc[t]
          /\ conexiones[t] = 1
          /\ resultados_desc[t] = "False"

\* C28: while a transfer runs, with a sink and a positive content length the
\* sink has been called once for every chunk with content received, the last
\* time with descargado / total_size, and without a length (or without a sink)
\* it has not been called; the function returns True once the body is complete
\* and False, never an exception, when the connection, the status, the body or
\* a write failed.
C28_ProgresoDeTransferencia ==
    \A t \in TareasDesc :
        /\ (pc_desc[t] = "cuerpo" /\ sink_desc /\ total_size[t] > 0) =>
              /\ llamadas_sink[t] = descargado[t]
              /\ llamadas_sink[t] > 0 => ult_valor[t] = <<descargado[t], total_size[t]>>
        /\ (~sink_desc \/ total_size[t] = 0) => llamadas_sink[t] = 0
        /\ TransferidaDesc(t) =>
              /\ exito_desc[t] \in {"True", "False"}
              /\ error_desc[t] => exito_desc[t] = "False"
              /\ (~error_desc[t] /\ ~sink_desc_lanzo[t]) => exito_desc[t] = "True"

\* C28 witness: of two transfers with a sink, one has received two chunks
\* without a length and returned True, the other has reported its two chunks as
\* 1/2 and 2/2.
C28_Witness ==
    /\ sink_desc
    /\ \E t \in TareasDesc :
          /\ pc_desc[t] = "cuerpo"
          /\ total_size[t] = 2
          /\ llamadas_sink[t] = 2
          /\ ult_valor[t] = <<2, 2>>
    /\ \E t \in TareasDesc :
          /\ TransferidaDesc(t)
          /\ exito_desc[t] = "True"
          /\ ~error_desc[t]

\* C29: the counter of finished tasks never exceeds the size of the batch and
\* equals it when the batch returns, so that no aggregate progress given to the
\* sink exceeds 1.0.
C29_ContadorExacto ==
    /\ descargas_completadas <= n_desc
    /\ pc_multi = "retornado" => descargas_completadas = n_desc
    /\ max_agregado <= n_desc

(***************************************************************************)
(* PART 7.  The version cache of src/version_manager.py: the file          *)
(* versions_cache.json, written by _save_cache alone, and                  *)
(* get_all_versions.  Time is counted in hours.                            *)
(***************************************************************************)
MaxReloj == 26        \* the clock stops here
MaxManifiestos == 2   \* distinct manifests the API may serve

cache_duration == 24  \* self.cache_duration = 24 * 3600 seconds

\* What _process_versions makes of the manifest m served by the API: the
\* versions organised by type, or {} (the empty sequence here) when the
\* manifest cannot be processed.
Manifiestos == 1..MaxManifiestos
DatosVM == {<<>>} \cup {<<m>> : m \in Manifiestos}

\* versions_cache.json: absent, not JSON (a write cut short), or the record
\* _save_cache writes.
SinArchivo == [forma |-> "ausente", timestamp |-> 0, data |-> <<>>]
ArchivoIlegible == [forma |-> "ilegible", timestamp |-> 0, data |-> <<>>]
ArchivoGuardado(t, d) == [forma |-> "registro", timestamp |-> t, data |-> d]

\* What get_all_versions returns: nothing yet, or a dict.
SinRetornoVM == [forma |-> "ninguno", data |-> <<>>]
RetornoVM(d) == [forma |-> "dict", data |-> d]

\* _load_cache returns the parsed file, and None when the file is absent or is
\* not JSON.
load_cache_es_None == archivo_vm.forma # "registro"

\* _is_cache_valid: the file exists, parses, and
\* (current_time - cache_time) < self.cache_duration
is_cache_valid_desde_cero ==
    /\ ~load_cache_es_None
    /\ reloj_vm - 0 < cache_duration
is_cache_valid ==
    /\ ~load_cache_es_None
    /\ reloj_vm - archivo_vm.timestamp < cache_duration

\* cache_data.get('data', {}) of the file as it is, {} when _load_cache
\* returns None.
DatosEnCache == IF load_cache_es_None THEN <<>> ELSE archivo_vm.data

\* time.time() advances.
PasaLaHora ==
    /\ reloj_vm < MaxReloj
    /\ reloj_vm' = reloj_vm + 1
    /\ UNCHANGED <<archivo_vm, marca_vm, forzada, api_vm, retorno_vm>>
    /\ UNCHANGED <<varsLote, varsCola, varsCache, varsScan, varsInst, varsDesc>>

\* get_all_versions(force_update): a valid cache is returned without a call of
\* the API unless the update is forced; else _fetch_versions_from_api is
\* called once, and it returns None (any failure) or the manifest.  After None
\* the data of the file, whatever its age, or {} are returned; after a
\* manifest the processed versions are saved with the time of now and
\* returned.  _save_cache may fail before it opens the file, which is then
\* left as it was, or while it writes, which leaves a file cut short.
get_all_versions(force_update) ==
    /\ marca_vm' = ~marca_vm
    /\ forzada' = force_update
    /\ IF ~force_update /\ is_cache_valid
       THEN /\ api_vm' = "sin_llamar"
            /\ retorno_vm' = RetornoVM(DatosEnCache)
            /\ UNCHANGED archivo_vm
       ELSE \/ /\ api_vm' = "fallo"
               /\ retorno_vm' = RetornoVM(DatosEnCache)
               /\ UNCHANGED archivo_vm
            \/ /\ api_vm' = "ok"
               /\ \E versions_data \in DatosVM :
                     /\ retorno_vm' = RetornoVM(versions_data)
                     /\ \/ archivo_vm' = ArchivoGuardado(reloj_vm, versions_data)
                        \/ archivo_vm' = ArchivoIlegible
                        \/ UNCHANGED archivo_vm
    /\ UNCHANGED reloj_vm
    /\ UNCHANGED <<varsLote, varsCola, varsCache, varsScan, varsInst, varsDesc>>

NextVM ==
    \/ PasaLaHora
    \/ \E force_update \in BOOLEAN : get_all_versions(force_update)

(***************************************************************************)
(* Claim on the version cache (SpecVM)                                     *)
(***************************************************************************)
\* C30: a call of get_all_versions that is not forced contacts the API only
\* when the cache file is absent, unreadable or at least 24 hours old; when the
\* API fails the call returns the data of the file, expired or not, or the
\* empty result when there is none, and the file is left as it was.
C30_CacheDeVersiones ==
    [][(marca_vm' # marca_vm /\ ~forzada') =>
          /\ api_vm' # "sin_llamar" =>
                \/ archivo_vm.forma \in {"ausente", "ilegible"}
                \/ reloj_vm - archivo_vm.timestamp >= cache_duration
          /\ api_vm' = "fallo" =>
                /\ archivo_vm' = archivo_vm
                /\ retorno_vm'.forma = "dict"
                /\ retorno_vm'.data = IF archivo_vm.forma \in {"ausente", "ilegible"} THEN <<>>
                                      ELSE archivo_vm.data]_vars

\* C30 witness: a call that was not forced found a cache 24 hours old, the API
\* failed, and the call returned the expired data.
C30_Witness ==
    /\ ~forzada
    /\ api_vm = "fallo"
    /\ archivo_vm.forma = "registro"
    /\ reloj_vm - archivo_vm.timestamp = cache_duration
    /\ retorno_vm = RetornoVM(archivo_vm.data)
    /\ archivo_vm.data # <<>>

(***************************************************************************)
(* Specifications                                                          *)
(***************************************************************************)
\* Initial state of SpecLote: the state after the module is loaded and a pool function is called on a batch.
InitLote ==
    /\ tipo_lote \in TiposLote
    /\ \E n \in 1..MaxLote, repetido \in BOOLEAN : nombres = Lista(n, repetido)
    /\ enviados = 0
    /\ unidad = [i \in DOMAIN nombres |-> "nueva"]
    /\ interno = [i \in DOMAIN nombres |-> "nada"]
    /\ resultados = {}
    /\ pc_lote = "submit"
    \* the other parts are not run: their state stays as the module sets it
    /\ cola_descargas = <<>>
    /\ cola_instalaciones = <<>>
    /\ en_proceso = FALSE
    /\ pc_llamador = [c \in Llamadores |-> "idle"]
    /\ cola_llamador = [c \in Llamadores |-> "descargas"]
    /\ siguiente_id = 1
    /\ hilos = <<>>
    /\ lotes = <<>>
    /\ ahora = TiempoInicial
    /\ cache_instancias = <<>>
    /\ cache_ultima_actualizacion = 0
    /\ raiz_existe = TRUE
    /\ fs = [c \in Carpetas |-> [estado |-> "ausente", mtime |-> 0]]
    /\ scan_count = 0
    /\ ult_llamada = SinLlamada
    /\ ult_retorno = SinRetorno
    /\ ult_scan = SinScan
    /\ pc_lista = [t \in HilosLista |-> "idle"]
    /\ tiempo_actual = [t \in HilosLista |-> 0]
    /\ trabajo = [t \in HilosLista |-> [c \in Carpetas |-> SinTrabajo]]
    /\ antes = [t \in HilosLista |-> <<>>]
    /\ vistos = [t \in HilosLista |-> {}]
    /\ retorno_hilo = [t \in HilosLista |-> SinRetorno]
    /\ tipo_unidad = "Vanilla"
    /\ version_pedida = "1.20.1"
    /\ version = "1.20.1"
    /\ con_sink = FALSE
    /\ pc_inst = "inicio"
    /\ intento = 0
    /\ indice_alt = 1
    /\ scaffold_fallo = FALSE
    /\ resuelto = "ninguno"
    /\ historial = <<>>
    /\ progreso = <<>>
    /\ sink_lanzo = FALSE
    /\ retorno_inst = "ninguno"
    /\ remedios = <<>>
    /\ n_desc = 1
    /\ sink_desc = FALSE
    /\ pc_desc = [t \in 1..MaxDesc |-> "nueva"]
    /\ conexiones = [t \in 1..MaxDesc |-> 0]
    /\ total_size = [t \in 1..MaxDesc |-> 0]
    /\ trozos = [t \in 1..MaxDesc |-> 0]
    /\ descargado = [t \in 1..MaxDesc |-> 0]
    /\ llamadas_sink = [t \in 1..MaxDesc |-> 0]
    /\ ult_valor = [t \in 1..MaxDesc |-> <<0, 0>>]
    /\ sink_desc_lanzo = [t \in 1..MaxDesc |-> FALSE]
    /\ error_desc = [t \in 1..MaxDesc |-> FALSE]
    /\ exito_desc = [t \in 1..MaxDesc |-> "ninguno"]
    /\ leido = [t \in 1..MaxDesc |-> 0]
    /\ descargas_completadas = 0
    /\ max_agregado = 0
    /\ resultados_desc = [t \in 1..MaxDesc |-> "ninguno"]
    /\ pc_multi = "corriendo"
    /\ reloj_vm = 0
    /\ archivo_vm = SinArchivo
    /\ marca_vm = FALSE
    /\ forzada = FALSE
    /\ api_vm = "sin_llamar"
    /\ retorno_vm = SinRetornoVM

\* Initial state of SpecCola: the state after the module is loaded.
InitCola ==
    /\ cola_descargas = <<>>
    /\ cola_instalaciones = <<>>
    /\ en_proceso = FALSE
    /\ pc_llamador = [c \in Llamadores |-> "idle"]
    /\ cola_llamador = [c \in Llamadores |-> "descargas"]
    /\ siguiente_id = 1
    /\ hilos = <<>>
    /\ lotes = <<>>
    \* the other parts are not run: their state stays as the module sets it
    /\ tipo_lote = "descarga"
    /\ nombres = <<>>
    /\ enviados = 0
    /\ unidad = <<>>
    /\ interno = <<>>
    /\ resultados = {}
    /\ pc_lote = "submit"
    /\ ahora = TiempoInicial
    /\ cache_instancias = <<>>
    /\ cache_ultima_actualizacion = 0
    /\ raiz_existe = TRUE
    /\ fs = [c \in Carpetas |-> [estado |-> "ausente", mtime |-> 0]]
    /\ scan_count = 0
    /\ ult_llamada = SinLlamada
    /\ ult_retorno = SinRetorno
    /\ ult_scan = SinScan
    /\ pc_lista = [t \in HilosLista |-> "idle"]
    /\ tiempo_actual = [t \in HilosLista |-> 0]
    /\ trabajo = [t \in HilosLista |-> [c \in Carpetas |-> SinTrabajo]]
    /\ antes = [t \in HilosLista |-> <<>>]
    /\ vistos = [t \in HilosLista |-> {}]
    /\ retorno_hilo = [t \in HilosLista |-> SinRetorno]
    /\ tipo_unidad = "Vanilla"
    /\ version_pedida = "1.20.1"
    /\ version = "1.20.1"
    /\ con_sink = FALSE
    /\ pc_inst = "inicio"
    /\ intento = 0
    /\ indice_alt = 1
    /\ scaffold_fallo = FALSE
    /\ resuelto = "ninguno"
    /\ historial = <<>>
    /\ progreso = <<>>
    /\ sink_lanzo = FALSE
    /\ retorno_inst = "ninguno"
    /\ remedios = <<>>
    /\ n_desc = 1
    /\ sink_desc = FALSE
    /\ pc_desc = [t \in 1..MaxDesc |-> "nueva"]
    /\ conexiones = [t \in 1..MaxDesc |-> 0]
    /\ total_size = [t \in 1..MaxDesc |-> 0]
    /\ trozos = [t \in 1..MaxDesc |-> 0]
    /\ descargado = [t \in 1..MaxDesc |-> 0]
    /\ llamadas_sink = [t \in 1..MaxDesc |-> 0]
    /\ ult_valor = [t \in 1..MaxDesc |-> <<0, 0>>]
    /\ sink_desc_lanzo = [t \in 1..MaxDesc |-> FALSE]
    /\ error_desc = [t \in 1..MaxDesc |-> FALSE]
    /\ exito_desc = [t \in 1..MaxDesc |-> "ninguno"]
    /\ leido = [t \in 1..MaxDesc |-> 0]
    /\ descargas_completadas = 0
    /\ max_agregado = 0
    /\ resultados_desc = [t \in 1..MaxDesc |-> "ninguno"]
    /\ pc_multi = "corriendo"
    /\ reloj_vm = 0
    /\ archivo_vm = SinArchivo
    /\ marca_vm = FALSE
    /\ forzada = FALSE
    /\ api_vm = "sin_llamar"
    /\ retorno_vm = SinRetornoVM

\* Initial state of SpecCache: the state after the module is loaded, with the instances root as found on disk.
InitCache ==
    /\ ahora = TiempoInicial
    /\ cache_instancias = <<>>
    /\ cache_ultima_actualizacion = 0
    /\ raiz_existe \in BOOLEAN
    /\ fs \in [Carpetas -> [estado : IF raiz_existe THEN EstadosCarpeta ELSE {"ausente"},
                            mtime : {0}]]
    /\ scan_count = 0
    /\ ult_llamada = SinLlamada
    /\ ult_retorno = SinRetorno
    /\ ult_scan = SinScan
    \* the other parts are not run: their state stays as the module sets it
    /\ tipo_lote = "descarga"
    /\ nombres = <<>>
    /\ enviados = 0
    /\ unidad = <<>>
    /\ interno = <<>>
    /\ resultados = {}
    /\ pc_lote = "submit"
    /\ cola_descargas = <<>>
    /\ cola_instalaciones = <<>>
    /\ en_proceso = FALSE
    /\ pc_llamador = [c \in Llamadores |-> "idle"]
    /\ cola_llamador = [c \in Llamadores |-> "descargas"]
    /\ siguiente_id = 1
    /\ hilos = <<>>
    /\ lotes = <<>>
    /\ pc_lista = [t \in HilosLista |-> "idle"]
    /\ tiempo_actual = [t \in HilosLista |-> 0]
    /\ trabajo = [t \in HilosLista |-> [c \in Carpetas |-> SinTrabajo]]
    /\ antes = [t \in HilosLista |-> <<>>]
    /\ vistos = [t \in HilosLista |-> {}]
    /\ retorno_hilo = [t \in HilosLista |-> SinRetorno]
    /\ tipo_unidad = "Vanilla"
    /\ version_pedida = "1.20.1"
    /\ version = "1.20.1"
    /\ con_sink = FALSE
    /\ pc_inst = "inicio"
    /\ intento = 0
    /\ indice_alt = 1
    /\ scaffold_fallo = FALSE
    /\ resuelto = "ninguno"
    /\ historial = <<>>
    /\ progreso = <<>>
    /\ sink_lanzo = FALSE
    /\ retorno_inst = "ninguno"
    /\ remedios = <<>>
    /\ n_desc = 1
    /\ sink_desc = FALSE
    /\ pc_desc = [t \in 1..MaxDesc |-> "nueva"]
    /\ conexiones = [t \in 1..MaxDesc |-> 0]
    /\ total_size = [t \in 1..MaxDesc |-> 0]
    /\ trozos = [t \in 1..MaxDesc |-> 0]
    /\ descargado = [t \in 1..MaxDesc |-> 0]
    /\ llamadas_sink = [t \in 1..MaxDesc |-> 0]
    /\ ult_valor = [t \in 1..MaxDesc |-> <<0, 0>>]
    /\ sink_desc_lanzo = [t \in 1..MaxDesc |-> FALSE]
    /\ error_desc = [t \in 1..MaxDesc |-> FALSE]
    /\ exito_desc = [t \in 1..MaxDesc |-> "ninguno"]
    /\ leido = [t \in 1..MaxDesc |-> 0]
    /\ descargas_completadas = 0
    /\ max_agregado = 0
    /\ resultados_desc = [t \in 1..MaxDesc |-> "ninguno"]
    /\ pc_multi = "corriendo"
    /\ reloj_vm = 0
    /\ archivo_vm = SinArchivo
    /\ marca_vm = FALSE
    /\ forzada = FALSE
    /\ api_vm = "sin_llamar"
    /\ retorno_vm = SinRetornoVM

\* Initial state of SpecScan: the state after the module is loaded, with the instances root as found on disk and no call in progress.
InitScan ==
    /\ ahora = TiempoInicial
    /\ cache_instancias = <<>>
    /\ cache_ultima_actualizacion = 0
    /\ raiz_existe = TRUE
    /\ fs \in [Carpetas -> [estado : EstadosCarpeta, mtime : {0}]]
    /\ scan_count = 0
    /\ ult_llamada = SinLlamada
    /\ ult_retorno = SinRetorno
    /\ ult_scan = SinScan
    /\ pc_lista = [t \in HilosLista |-> "idle"]
    /\ tiempo_actual = [t \in HilosLista |-> 0]
    /\ trabajo = [t \in HilosLista |-> [c \in Carpetas |-> SinTrabajo]]
    /\ antes = [t \in HilosLista |-> <<>>]
    /\ vistos = [t \in HilosLista |-> {}]
    /\ retorno_hilo = [t \in HilosLista |-> SinRetorno]
    \* the other parts are not run: their state stays as the module sets it
    /\ tipo_lote = "descarga"
    /\ nombres = <<>>
    /\ enviados = 0
    /\ unidad = <<>>
    /\ interno = <<>>
    /\ resultados = {}
    /\ pc_lote = "submit"
    /\ cola_descargas = <<>>
    /\ cola_instalaciones = <<>>
    /\ en_proceso = FALSE
    /\ pc_llamador = [c \in Llamadores |-> "idle"]
    /\ cola_llamador = [c \in Llamadores |-> "descargas"]
    /\ siguiente_id = 1
    /\ hilos = <<>>
    /\ lotes = <<>>
    /\ tipo_unidad = "Vanilla"
    /\ version_pedida = "1.20.1"
    /\ version = "1.20.1"
    /\ con_sink = FALSE
    /\ pc_inst = "inicio"
    /\ intento = 0
    /\ indice_alt = 1
    /\ scaffold_fallo = FALSE
    /\ resuelto = "ninguno"
    /\ historial = <<>>
    /\ progreso = <<>>
    /\ sink_lanzo = FALSE
    /\ retorno_inst = "ninguno"
    /\ remedios = <<>>
    /\ n_desc = 1
    /\ sink_desc = FALSE
    /\ pc_desc = [t \in 1..MaxDesc |-> "nueva"]
    /\ conexiones = [t \in 1..MaxDesc |-> 0]
    /\ total_size = [t \in 1..MaxDesc |-> 0]
    /\ trozos = [t \in 1..MaxDesc |-> 0]
    /\ descargado = [t \in 1..MaxDesc |-> 0]
    /\ llamadas_sink = [t \in 1..MaxDesc |-> 0]
    /\ ult_valor = [t \in 1..MaxDesc |-> <<0, 0>>]
    /\ sink_desc_lanzo = [t \in 1..MaxDesc |-> FALSE]
    /\ error_desc = [t \in 1..MaxDesc |-> FALSE]
    /\ exito_desc = [t \in 1..MaxDesc |-> "ninguno"]
    /\ leido = [t \in 1..MaxDesc |-> 0]
    /\ descargas_completadas = 0
    /\ max_agregado = 0
    /\ resultados_desc = [t \in 1..MaxDesc |-> "ninguno"]
    /\ pc_multi = "corriendo"
    /\ reloj_vm = 0
    /\ archivo_vm = SinArchivo
    /\ marca_vm = FALSE
    /\ forzada = FALSE
    /\ api_vm = "sin_llamar"
    /\ retorno_vm = SinRetornoVM

\* Initial state of SpecInst: instalar_version_optimizada is called.
InitInst ==
    /\ tipo_unidad \in TiposUnidad
    /\ version_pedida \in VersionesPedidas
    /\ version = version_pedida
    /\ con_sink \in BOOLEAN
    /\ pc_inst = "inicio"
    /\ intento = 0
    /\ indice_alt = 1
    /\ scaffold_fallo = FALSE
    /\ resuelto = "ninguno"
    /\ historial = <<>>
    /\ progreso = <<>>
    /\ sink_lanzo = FALSE
    /\ retorno_inst = "ninguno"
    /\ remedios = <<>>
    /\ n_desc = 1
    /\ sink_desc = FALSE
    /\ pc_desc = [t \in 1..MaxDesc |-> "nueva"]
    /\ conexiones = [t \in 1..MaxDesc |-> 0]
    /\ total_size = [t \in 1..MaxDesc |-> 0]
    /\ trozos = [t \in 1..MaxDesc |-> 0]
    /\ descargado = [t \in 1..MaxDesc |-> 0]
    /\ llamadas_sink = [t \in 1..MaxDesc |-> 0]
    /\ ult_valor = [t \in 1..MaxDesc |-> <<0, 0>>]
    /\ sink_desc_lanzo = [t \in 1..MaxDesc |-> FALSE]
    /\ error_desc = [t \in 1..MaxDesc |-> FALSE]
    /\ exito_desc = [t \in 1..MaxDesc |-> "ninguno"]
    /\ leido = [t \in 1..MaxDesc |-> 0]
    /\ descargas_completadas = 0
    /\ max_agregado = 0
    /\ resultados_desc = [t \in 1..MaxDesc |-> "ninguno"]
    /\ pc_multi = "corriendo"
    /\ reloj_vm = 0
    /\ archivo_vm = SinArchivo
    /\ marca_vm = FALSE
    /\ forzada = FALSE
    /\ api_vm = "sin_llamar"
    /\ retorno_vm = SinRetornoVM
    \* the other parts are not run: their state stays as the module sets it
    /\ tipo_lote = "descarga"
    /\ nombres = <<>>
    /\ enviados = 0
    /\ unidad = <<>>
    /\ interno = <<>>
    /\ resultados = {}
    /\ pc_lote = "submit"
    /\ cola_descargas = <<>>
    /\ cola_instalaciones = <<>>
    /\ en_proceso = FALSE
    /\ pc_llamador = [c \in Llamadores |-> "idle"]
    /\ cola_llamador = [c \in Llamadores |-> "descargas"]
    /\ siguiente_id = 1
    /\ hilos = <<>>
    /\ lotes = <<>>
    /\ ahora = TiempoInicial
    /\ cache_instancias = <<>>
    /\ cache_ultima_actualizacion = 0
    /\ raiz_existe = TRUE
    /\ fs = [c \in Carpetas |-> [estado |-> "ausente", mtime |-> 0]]
    /\ scan_count = 0
    /\ ult_llamada = SinLlamada
    /\ ult_retorno = SinRetorno
    /\ ult_scan = SinScan
    /\ pc_lista = [t \in HilosLista |-> "idle"]
    /\ tiempo_actual = [t \in HilosLista |-> 0]
    /\ trabajo = [t \in HilosLista |-> [c \in Carpetas |-> SinTrabajo]]
    /\ antes = [t \in HilosLista |-> <<>>]
    /\ vistos = [t \in HilosLista |-> {}]
    /\ retorno_hilo = [t \in HilosLista |-> SinRetorno]

\* Initial state of SpecDesc: multidescarga_archivos has been called on a batch, with or without a sink, and has submitted its tasks.
InitDesc ==
    /\ n_desc \in 1..MaxDesc
    /\ sink_desc \in BOOLEAN
    /\ pc_desc = [t \in 1..MaxDesc |-> "nueva"]
    /\ conexiones = [t \in 1..MaxDesc |-> 0]
    /\ total_size = [t \in 1..MaxDesc |-> 0]
    /\ trozos = [t \in 1..MaxDesc |-> 0]
    /\ descargado = [t \in 1..MaxDesc |-> 0]
    /\ llamadas_sink = [t \in 1..MaxDesc |-> 0]
    /\ ult_valor = [t \in 1..MaxDesc |-> <<0, 0>>]
    /\ sink_desc_lanzo = [t \in 1..MaxDesc |-> FALSE]
    /\ error_desc = [t \in 1..MaxDesc |-> FALSE]
    /\ exito_desc = [t \in 1..MaxDesc |-> "ninguno"]
    /\ leido = [t \in 1..MaxDesc |-> 0]
    /\ descargas_completadas = 0
    /\ max_agregado = 0
    /\ resultados_desc = [t \in 1..MaxDesc |-> "ninguno"]
    /\ pc_multi = "corriendo"
    \* the other parts are not run: their state stays as the module sets it
    /\ reloj_vm = 0
    /\ archivo_vm = SinArchivo
    /\ marca_vm = FALSE
    /\ forzada = FALSE
    /\ api_vm = "sin_llamar"
    /\ retorno_vm = SinRetornoVM
    /\ cola_descargas = <<>>
    /\ cola_instalaciones = <<>>
    /\ en_proceso = FALSE
    /\ pc_llamador = [c \in Llamadores |-> "idle"]
    /\ cola_llamador = [c \in Llamadores |-> "descargas"]
    /\ siguiente_id = 1
    /\ hilos = <<>>
    /\ lotes = <<>>
    /\ tipo_lote = "descarga"
    /\ nombres = <<>>
    /\ enviados = 0
    /\ unidad = <<>>
    /\ interno = <<>>
    /\ resultados = {}
    /\ pc_lote = "submit"
    /\ ahora = TiempoInicial
    /\ cache_instancias = <<>>
    /\ cache_ultima_actualizacion = 0
    /\ raiz_existe = TRUE
    /\ fs = [c \in Carpetas |-> [estado |-> "ausente", mtime |-> 0]]
    /\ scan_count = 0
    /\ ult_llamada = SinLlamada
    /\ ult_retorno = SinRetorno
    /\ ult_scan = SinScan
    /\ pc_lista = [t \in HilosLista |-> "idle"]
    /\ tiempo_actual = [t \in HilosLista |-> 0]
    /\ trabajo = [t \in HilosLista |-> [c \in Carpetas |-> SinTrabajo]]
    /\ antes = [t \in HilosLista |-> <<>>]
    /\ vistos = [t \in HilosLista |-> {}]
    /\ retorno_hilo = [t \in HilosLista |-> SinRetorno]
    /\ tipo_unidad = "Vanilla"
    /\ version_pedida = "1.20.1"
    /\ version = "1.20.1"
    /\ con_sink = FALSE
    /\ pc_inst = "inicio"
    /\ intento = 0
    /\ indice_alt = 1
    /\ scaffold_fallo = FALSE
    /\ resuelto = "ninguno"
    /\ historial = <<>>
    /\ progreso = <<>>
    /\ sink_lanzo = FALSE
    /\ retorno_inst = "ninguno"
    /\ remedios = <<>>

\* Initial state of SpecVM: the VersionManager has been constructed and no cache file has been written yet.
InitVM ==
    /\ reloj_vm = 0
    /\ archivo_vm = SinArchivo
    /\ marca_vm = FALSE
    /\ forzada = FALSE
    /\ api_vm = "sin_llamar"
    /\ retorno_vm = SinRetornoVM
    \* the other parts are not run: their state stays as the module sets it
    /\ n_desc = 1
    /\ sink_desc = FALSE
    /\ pc_desc = [t \in 1..MaxDesc |-> "nueva"]
    /\ conexiones = [t \in 1..MaxDesc |-> 0]
    /\ total_size = [t \in 1..MaxDesc |-> 0]
    /\ trozos = [t \in 1..MaxDesc |-> 0]
    /\ descargado = [t \in 1..MaxDesc |-> 0]
    /\ llamadas_sink = [t \in 1..MaxDesc |-> 0]
    /\ ult_valor = [t \in 1..MaxDesc |-> <<0, 0>>]
    /\ sink_desc_lanzo = [t \in 1..MaxDesc |-> FALSE]
    /\ error_desc = [t \in 1..MaxDesc |-> FALSE]
    /\ exito_desc = [t \in 1..MaxDesc |-> "ninguno"]
    /\ leido = [t \in 1..MaxDesc |-> 0]
    /\ descargas_completadas = 0
    /\ max_agregado = 0
    /\ resultados_desc = [t \in 1..MaxDesc |-> "ninguno"]
    /\ pc_multi = "corriendo"
    /\ cola_descargas = <<>>
    /\ cola_instalaciones = <<>>
    /\ en_proceso = FALSE
    /\ pc_llamador = [c \in Llamadores |-> "idle"]
    /\ cola_llamador = [c \in Llamadores |-> "descargas"]
    /\ siguiente_id = 1
    /\ hilos = <<>>
    /\ lotes = <<>>
    /\ tipo_lote = "descarga"
    /\ nombres = <<>>
    /\ enviados = 0
    /\ unidad = <<>>
    /\ interno = <<>>
    /\ resultados = {}
    /\ pc_lote = "submit"
    /\ ahora = TiempoInicial
    /\ cache_instancias = <<>>
    /\ cache_ultima_actualizacion = 0
    /\ raiz_existe = TRUE
    /\ fs = [c \in Carpetas |-> [estado |-> "ausente", mtime |-> 0]]
    /\ scan_count = 0
    /\ ult_llamada = SinLlamada
    /\ ult_retorno = SinRetorno
    /\ ult_scan = SinScan
    /\ pc_lista = [t \in HilosLista |-> "idle"]
    /\ tiempo_actual = [t \in HilosLista |-> 0]
    /\ trabajo = [t \in HilosLista |-> [c \in Carpetas |-> SinTrabajo]]
    /\ antes = [t \in HilosLista |-> <<>>]
    /\ vistos = [t \in HilosLista |-> {}]
    /\ retorno_hilo = [t \in HilosLista |-> SinRetorno]
    /\ tipo_unidad = "Vanilla"
    /\ version_pedida = "1.20.1"
    /\ version = "1.20.1"
    /\ con_sink = FALSE
    /\ pc_inst = "inicio"
    /\ intento = 0
    /\ indice_alt = 1
    /\ scaffold_fallo = FALSE
    /\ resuelto = "ninguno"
    /\ historial = <<>>
    /\ progreso = <<>>
    /\ sink_lanzo = FALSE
    /\ retorno_inst = "ninguno"
    /\ remedios = <<>>

SpecLote ==
    /\ InitLote
    /\ [][NextLote]_vars

SpecCola ==
    /\ InitCola
    /\ [][NextCola]_vars

SpecCache ==
    /\ InitCache
    /\ [][NextCache]_vars

SpecScan ==
    /\ InitScan
    /\ [][NextScan]_vars

SpecInst ==
    /\ InitInst
    /\ [][NextInst]_vars

SpecDesc ==
    /\ InitDesc
    /\ [][NextDesc]_vars

SpecVM ==
    /\ InitVM
    /\ [][NextVM]_vars

====
